---- MODULE Spec2Model ----
(***************************************************************************)
(* Model of crasher-bot: the hotstreak tracker, the custom / primary       *)
(* martingale state machines, the live engine run loop                     *)
(* (crasher_bot/core/engine.py) and the offline backtest engine            *)
(* (analysis/custom/backtest_simulator.py).                                *)
(*                                                                         *)
(* Multipliers are fixed-point integers counting Unit hundredths           *)
(* (Unit = 50: 2 is 1.00x, 4 is 2.00x, 200 is 100.00x); every comparison   *)
(* against a threshold is made in hundredths so it is exact.  Money is an  *)
(* integer amount; bet_multiplier is an integral factor.                   *)
(***************************************************************************)
EXTENDS Integers, Sequences, FiniteSets, TLC

\* ------------------------------------------------------------------------
\* Numeric helpers
\* ------------------------------------------------------------------------

Unit == 50

Hundredths(m) == m * Unit

RECURSIVE Pow(_, _)
Pow(b, e) == IF e = 0 THEN 1 ELSE b * Pow(b, e - 1)

RECURSIVE SumSeq(_)
SumSeq(s) == IF s = << >> THEN 0 ELSE Head(s) + SumSeq(Tail(s))

RECURSIVE SumSq(_)
SumSq(s) == IF s = << >> THEN 0 ELSE Head(s) * Head(s) + SumSq(Tail(s))

RECURSIVE MaxSeq(_)
MaxSeq(s) == IF Len(s) = 1 THEN s[1]
             ELSE LET r == MaxSeq(Tail(s)) IN IF Head(s) > r THEN Head(s) ELSE r

\* sum(1 for m in window if m >= threshold), threshold in hundredths
CountAtLeast(s, th) == Cardinality({i \in 1..Len(s) : Hundredths(s[i]) >= th})

\* s[-n:] for 0 < n <= len(s)
LastN(s, n) == SubSeq(s, Len(s) - n + 1, Len(s))

\* ------------------------------------------------------------------------
\* Thresholds (crasher_bot/core/hotstreak.py, mirrored in the backtest)
\* ------------------------------------------------------------------------

HOTSTREAK_WEAK_PCT == 65
HOTSTREAK_STRONG_PCT == 75
HOTSTREAK_MIN_WINDOW == 10
HOTSTREAK_MAX_WINDOW == 15
COLD_STREAK_LENGTH == 5
HISTORY_SIZE == 50

\* ------------------------------------------------------------------------
\* HotstreakTracker
\* ------------------------------------------------------------------------

\* None for current_hotstreak / last_hotstreak
NoHotstreak == [type |-> "none", length |-> 0, average |-> <<0, 1>>, start_round |-> 0]

\* HotstreakTracker.__init__
NewTracker ==
    [recent |-> << >>,
     current_hotstreak |-> NoHotstreak,
     last_hotstreak |-> NoHotstreak,
     hotstreak_end_round |-> 0,
     current_round |-> 0,
     rounds_after_hotstreak |-> 0,
     cold_streak_occurred |-> FALSE,
     cold_count |-> 0]

in_hotstreak(t) == t.current_hotstreak # NoHotstreak

just_ended_hotstreak(t) ==
    t.last_hotstreak # NoHotstreak /\ t.rounds_after_hotstreak <= 15

\* live tracker: empty list when the history is shorter than n
get_last_n(t, n) == IF Len(t.recent) >= n THEN LastN(t.recent, n) ELSE << >>

\* backtest tracker: the whole (shorter) history when it is shorter than n
bt_get_last_n(t, n) == IF Len(t.recent) >= n THEN LastN(t.recent, n) ELSE t.recent

\* window sizes whose last-ws window reaches the weak percentage
QualifyingWindows(recent) ==
    {ws \in HOTSTREAK_MIN_WINDOW..HOTSTREAK_MAX_WINDOW :
        /\ Len(recent) >= ws
        /\ CountAtLeast(LastN(recent, ws), 200) * 100 >= HOTSTREAK_WEAK_PCT * ws}

\* the smallest element: the loop run from the smallest window size up
MinOf(S) == CHOOSE x \in S : \A y \in S : x <= y

MaxOf(S) == CHOOSE x \in S : \A y \in S : y <= x

\* a detection that builds a new hotstreak on every update
detect_hotstreak_anew(t) ==
    LET Q == QualifyingWindows(t.recent) IN
    IF Q # {} THEN
        LET ws == MaxOf(Q)
            window == LastN(t.recent, ws)
            above == CountAtLeast(window, 200)
            stype == IF above * 100 >= HOTSTREAK_STRONG_PCT * ws THEN "strong" ELSE "weak"
        IN [t EXCEPT !.current_hotstreak =
               [type |-> stype, length |-> ws, average |-> <<SumSeq(window), ws>>,
                start_round |-> t.current_round - ws + 1]]
    ELSE IF t.current_hotstreak # NoHotstreak
         THEN [t EXCEPT !.last_hotstreak = t.current_hotstreak,
                        !.hotstreak_end_round = t.current_round - 1,
                        !.rounds_after_hotstreak = 0,
                        !.cold_streak_occurred = FALSE,
                        !.cold_count = 0,
                        !.current_hotstreak = NoHotstreak]
         ELSE t

\* a detection that keeps the count of low rounds when the hotstreak ends
detect_hotstreak_count_kept(t) ==
    LET Q == QualifyingWindows(t.recent) IN
    IF Q # {} THEN
        LET ws == MaxOf(Q)
            window == LastN(t.recent, ws)
            above == CountAtLeast(window, 200)
            stype == IF above * 100 >= HOTSTREAK_STRONG_PCT * ws THEN "strong" ELSE "weak"
            avg == <<SumSeq(window), ws>>
        IN IF t.current_hotstreak = NoHotstreak
           THEN [t EXCEPT !.current_hotstreak =
                    [type |-> stype, length |-> ws, average |-> avg,
                     start_round |-> t.current_round - ws + 1]]
           ELSE [t EXCEPT !.current_hotstreak =
                    [@ EXCEPT !.type = stype, !.length = ws, !.average = avg]]
    ELSE IF t.current_hotstreak # NoHotstreak
         THEN [t EXCEPT !.last_hotstreak = t.current_hotstreak,
                        !.hotstreak_end_round = t.current_round - 1,
                        !.rounds_after_hotstreak = 0,
                        !.cold_streak_occurred = FALSE,
                        !.current_hotstreak = NoHotstreak]
         ELSE t

\* _detect_hotstreak: the loop runs from the largest window size down and
\* returns at the first qualifying one; average is kept as <<sum, ws>>.
detect_hotstreak(t) ==
    LET Q == QualifyingWindows(t.recent) IN
    IF Q # {} THEN
        LET ws == MaxOf(Q)
            window == LastN(t.recent, ws)
            above == CountAtLeast(window, 200)
            stype == IF above * 100 >= HOTSTREAK_STRONG_PCT * ws THEN "strong" ELSE "weak"
            avg == <<SumSeq(window), ws>>
        IN IF t.current_hotstreak = NoHotstreak
           THEN [t EXCEPT !.current_hotstreak =
                    [type |-> stype, length |-> ws, average |-> avg,
                     start_round |-> t.current_round - ws + 1]]
           ELSE [t EXCEPT !.current_hotstreak =
                    [@ EXCEPT !.type = stype, !.length = ws, !.average = avg]]
    ELSE IF t.current_hotstreak # NoHotstreak
         THEN [t EXCEPT !.last_hotstreak = t.current_hotstreak,
                        !.hotstreak_end_round = t.current_round - 1,
                        !.rounds_after_hotstreak = 0,
                        !.cold_streak_occurred = FALSE,
                        !.cold_count = 0,
                        !.current_hotstreak = NoHotstreak]
         ELSE t

\* a cold flag that needs one more low round than COLD_STREAK_LENGTH
track_cold_six(t, multiplier) ==
    LET t1 == IF t.last_hotstreak # NoHotstreak
              THEN [t EXCEPT !.rounds_after_hotstreak =
                                 t.current_round - t.hotstreak_end_round]
              ELSE t
    IN IF Hundredths(multiplier) < 200
       THEN [t1 EXCEPT !.cold_count = @ + 1,
                       !.cold_streak_occurred =
                           IF t1.cold_count + 1 > COLD_STREAK_LENGTH THEN TRUE ELSE @]
       ELSE [t1 EXCEPT !.cold_count = 0]

\* a round count that stands still on rounds under 2.0x
track_cold_stalling(t, multiplier) ==
    IF Hundredths(multiplier) < 200
    THEN [t EXCEPT !.cold_count = @ + 1,
                   !.cold_streak_occurred =
                       IF t.cold_count + 1 >= COLD_STREAK_LENGTH THEN TRUE ELSE @]
    ELSE [t EXCEPT !.cold_count = 0,
                   !.rounds_after_hotstreak =
                       IF t.last_hotstreak # NoHotstreak
                       THEN t.current_round - t.hotstreak_end_round ELSE @]

\* a cold flag that is cleared by a round at or above 2.0x
track_cold_clearing(t, multiplier) ==
    LET t1 == IF t.last_hotstreak # NoHotstreak
              THEN [t EXCEPT !.rounds_after_hotstreak =
                                 t.current_round - t.hotstreak_end_round]
              ELSE t
    IN IF Hundredths(multiplier) < 200
       THEN [t1 EXCEPT !.cold_count = @ + 1,
                       !.cold_streak_occurred =
                           IF t1.cold_count + 1 >= COLD_STREAK_LENGTH THEN TRUE ELSE @]
       ELSE [t1 EXCEPT !.cold_count = 0, !.cold_streak_occurred = FALSE]

\* _track_cold
track_cold(t, multiplier) ==
    LET t1 == IF t.last_hotstreak # NoHotstreak
              THEN [t EXCEPT !.rounds_after_hotstreak =
                                 t.current_round - t.hotstreak_end_round]
              ELSE t
    IN IF Hundredths(multiplier) < 200
       THEN [t1 EXCEPT !.cold_count = @ + 1,
                       !.cold_streak_occurred =
                           IF t1.cold_count + 1 >= COLD_STREAK_LENGTH THEN TRUE ELSE @]
       ELSE [t1 EXCEPT !.cold_count = 0]

\* a history that drops the newest outcome when it is full
add_multiplier_drop_newest(t, multiplier) ==
    LET appended == Append(t.recent, multiplier)
        t1 == [t EXCEPT !.current_round = @ + 1,
                        !.recent = IF Len(appended) > HISTORY_SIZE
                                   THEN t.recent ELSE appended]
    IN track_cold(detect_hotstreak(t1), multiplier)

\* add_multiplier
add_multiplier(t, multiplier) ==
    LET appended == Append(t.recent, multiplier)
        t1 == [t EXCEPT !.current_round = @ + 1,
                        !.recent = IF Len(appended) > HISTORY_SIZE
                                   THEN Tail(appended) ELSE appended]
    IN track_cold(detect_hotstreak(t1), multiplier)

\* run(): "for m in page_mults: self.tracker.add_multiplier(m)"
RECURSIVE FeedAll(_, _)
FeedAll(t, ms) == IF ms = << >> THEN t
                  ELSE FeedAll(add_multiplier(t, Head(ms)), Tail(ms))

\* ------------------------------------------------------------------------
\* Signal analysis helpers
\* ------------------------------------------------------------------------

\* np.std(window) > th (population standard deviation, th in whole multiples):
\* n*sum(x^2) - sum(x)^2 > th^2 * n^2, with x in hundredths = Unit * model unit
StdAbove(window, th) ==
    LET n == Len(window)
        D == n * SumSq(window) - SumSeq(window) * SumSeq(window)
    IN D > (th * th * 10000 * n * n) \div (Unit * Unit)

\* an analysis that looks for the pre-streak pattern in windows of any size
analyze_window_any_size(window, window_size) ==
    LET n == Len(window)
        above_2x == CountAtLeast(window, 200)
        pre == /\ Hundredths(SumSeq(window)) > 375 * n
               /\ above_2x >= 4
               /\ StdAbove(window, 12)
               /\ Hundredths(MaxSeq(window)) > 716
    IN (IF pre THEN <<"pre_streak">> ELSE << >>)
       \o (IF StdAbove(window, 25) THEN <<"high_stddev">> ELSE << >>)

\* analyze_window: list of detected signal names
analyze_window(window, window_size) ==
    LET n == Len(window)
        above_2x == CountAtLeast(window, 200)
        pre == /\ window_size = 10
               /\ Hundredths(SumSeq(window)) > 375 * n
               /\ above_2x >= 4
               /\ StdAbove(window, 12)
               /\ Hundredths(MaxSeq(window)) > 716
    IN (IF pre THEN <<"pre_streak">> ELSE << >>)
       \o (IF StdAbove(window, 25) THEN <<"high_stddev">> ELSE << >>)

\* a chain check that accepts four outcomes at or above 2.0x
check_chain_patterns_four(t, last_10) ==
    IF t.last_hotstreak = NoHotstreak THEN << >>
    ELSE
      LET ra == t.rounds_after_hotstreak
          chain ==
            IF ra = 10 /\ Len(last_10) = 10
               /\ Hundredths(SumSeq(last_10)) > 200 * 10
               /\ CountAtLeast(last_10, 200) >= 4
               /\ ~t.cold_streak_occurred
            THEN IF /\ t.last_hotstreak.type = "strong"
                    /\ Hundredths(t.last_hotstreak.average[1]) >
                           600 * t.last_hotstreak.average[2]
                 THEN <<"dead_ass_chain">>
                 ELSE <<"possible_chain">>
            ELSE << >>
      IN chain \o (IF ra = 15 /\ ~t.cold_streak_occurred
                   THEN <<"rule_of_17">> ELSE << >>)

\* check_chain_patterns
check_chain_patterns(t, last_10) ==
    IF t.last_hotstreak = NoHotstreak THEN << >>
    ELSE
      LET ra == t.rounds_after_hotstreak
          chain ==
            IF ra = 10 /\ Len(last_10) = 10
               /\ Hundredths(SumSeq(last_10)) > 200 * 10
               /\ CountAtLeast(last_10, 200) > 4
               /\ ~t.cold_streak_occurred
            THEN IF /\ t.last_hotstreak.type = "strong"
                    /\ Hundredths(t.last_hotstreak.average[1]) >
                           600 * t.last_hotstreak.average[2]
                 THEN <<"dead_ass_chain">>
                 ELSE <<"possible_chain">>
            ELSE << >>
      IN chain \o (IF ra = 15 /\ ~t.cold_streak_occurred
                   THEN <<"rule_of_17">> ELSE << >>)

\* ------------------------------------------------------------------------
\* Strategy state (crasher_bot/strategies/__init__.py; SimulationState in
\* the backtest mirrors CustomState, its config fields are kept flat here)
\* ------------------------------------------------------------------------

None == << >>

\* CustomState(...) as built by BotEngine._load_strategies: cooldown_after_win,
\* cooldown_after_loss and activate_on_possible_chain are not passed and keep
\* the dataclass defaults.
NewCustomState(cs) ==
    [base_bet |-> cs.base_bet,
     auto_cashout |-> cs.auto_cashout,
     max_consecutive_losses |-> cs.max_consecutive_losses,
     max_losses_in_window |-> cs.max_losses_in_window,
     loss_check_window |-> cs.loss_check_window,
     bet_multiplier |-> cs.bet_multiplier,
     stop_profit_count |-> cs.stop_profit_count,
     cooldown_after_win |-> 0,
     cooldown_after_loss |-> 0,
     activate_on_strong_hotstreak |-> cs.activate_on_strong_hotstreak,
     activate_on_weak_hotstreak |-> cs.activate_on_weak_hotstreak,
     activate_on_rule_of_17 |-> cs.activate_on_rule_of_17,
     activate_on_pre_streak_pattern |-> cs.activate_on_pre_streak_pattern,
     activate_on_possible_chain |-> FALSE,
     activate_on_high_deviation_10 |-> cs.activate_on_high_deviation_10,
     activate_on_high_deviation_15 |-> cs.activate_on_high_deviation_15,
     signal_confirm_threshold |-> cs.signal_confirm_threshold,
     signal_confirm_count |-> cs.signal_confirm_count,
     signal_confirm_window |-> cs.signal_confirm_window,
     signal_monitor_rounds |-> cs.signal_monitor_rounds,
     current_bet |-> cs.base_bet,
     consecutive_losses |-> 0,
     total_profit |-> 0,
     total_wins |-> 0,
     waiting_for_result |-> FALSE,
     is_active |-> FALSE,
     recent_outcomes |-> << >>,
     monitoring |-> FALSE,
     rounds_monitored |-> 0,
     monitoring_history |-> << >>,
     pending_signal_reason |-> None,
     cooldown_remaining |-> 0,
     cooldown_type |-> ""]

\* SimulationState(config=config)
NewSimulationState(cfg) ==
    [base_bet |-> cfg.base_bet,
     auto_cashout |-> cfg.auto_cashout,
     max_consecutive_losses |-> cfg.max_consecutive_losses,
     max_losses_in_window |-> cfg.max_losses_in_window,
     loss_check_window |-> cfg.loss_check_window,
     bet_multiplier |-> cfg.bet_multiplier,
     stop_profit_count |-> cfg.stop_profit_count,
     cooldown_after_win |-> cfg.cooldown_after_win,
     cooldown_after_loss |-> cfg.cooldown_after_loss,
     activate_on_strong_hotstreak |-> cfg.activate_on_strong_hotstreak,
     activate_on_weak_hotstreak |-> cfg.activate_on_weak_hotstreak,
     activate_on_rule_of_17 |-> cfg.activate_on_rule_of_17,
     activate_on_pre_streak_pattern |-> cfg.activate_on_pre_streak_pattern,
     activate_on_possible_chain |-> cfg.activate_on_possible_chain,
     activate_on_high_deviation_10 |-> cfg.activate_on_high_deviation_10,
     activate_on_high_deviation_15 |-> cfg.activate_on_high_deviation_15,
     signal_confirm_threshold |-> cfg.signal_confirm_threshold,
     signal_confirm_count |-> cfg.signal_confirm_count,
     signal_confirm_window |-> cfg.signal_confirm_window,
     signal_monitor_rounds |-> cfg.signal_monitor_rounds,
     current_bet |-> cfg.base_bet,
     consecutive_losses |-> 0,
     total_profit |-> 0,
     total_wins |-> 0,
     total_bets |-> 0,
     is_active |-> FALSE,
     waiting_for_result |-> FALSE,
     recent_outcomes |-> << >>,
     monitoring |-> FALSE,
     rounds_monitored |-> 0,
     monitoring_history |-> << >>,
     pending_signal_reason |-> None,
     cooldown_remaining |-> 0,
     cooldown_type |-> "",
     max_drawdown |-> 0,
     peak_profit |-> 0,
     win_streak |-> 0,
     max_win_streak |-> 0,
     loss_streak |-> 0,
     max_loss_streak |-> 0,
     signals_fired |-> 0,
     bets_placed |-> << >>]

\* StrategyState(...) for a primary strategy
NewStrategyState(sc) ==
    [name |-> sc.name,
     base_bet |-> sc.base_bet,
     auto_cashout |-> sc.auto_cashout,
     trigger_threshold |-> sc.trigger_threshold,
     trigger_count |-> sc.trigger_count,
     max_consecutive_losses |-> sc.max_consecutive_losses,
     bet_multiplier |-> sc.bet_multiplier,
     current_bet |-> sc.base_bet,
     consecutive_losses |-> 0,
     total_profit |-> 0,
     waiting_for_result |-> FALSE,
     is_active |-> FALSE]

\* a progression that adds base_bet per loss instead of multiplying
next_bet_additive(s) == s.base_bet * (1 + s.consecutive_losses)

\* next_bet (StrategyState, CustomState, SimulationState)
next_bet(s) ==
    IF s.consecutive_losses = 0 THEN s.base_bet
    ELSE s.base_bet * Pow(s.bet_multiplier, s.consecutive_losses)

\* the whole payout of a win: current_bet * auto_cashout
WinProfit_payout(bet, auto_cashout) == (bet * Hundredths(auto_cashout)) \div 100

\* current_bet * (auto_cashout - 1)
WinProfit(bet, auto_cashout) == (bet * (Hundredths(auto_cashout) - 100)) \div 100

\* monitoring that is never cancelled
stop_monitoring_keep(s) == s

stop_monitoring(s) ==
    [s EXCEPT !.monitoring = FALSE,
              !.rounds_monitored = 0,
              !.monitoring_history = << >>,
              !.pending_signal_reason = None]

\* a monitor that starts with an empty history
start_monitoring_unseeded(s, reason, initial) ==
    [s EXCEPT !.monitoring = TRUE,
              !.rounds_monitored = 0,
              !.monitoring_history = << >>,
              !.pending_signal_reason = reason]

start_monitoring(s, reason, initial) ==
    [s EXCEPT !.monitoring = TRUE,
              !.rounds_monitored = 0,
              !.monitoring_history = initial,
              !.pending_signal_reason = reason]

reset(s) ==
    [s EXCEPT !.current_bet = s.base_bet,
              !.consecutive_losses = 0,
              !.waiting_for_result = FALSE,
              !.is_active = FALSE]

\* a full reset that also forgets the profit made
full_reset_forgetting(s) ==
    [stop_monitoring(reset(s)) EXCEPT !.total_wins = 0,
                                      !.total_profit = 0,
                                      !.recent_outcomes = << >>,
                                      !.cooldown_remaining = 0,
                                      !.cooldown_type = ""]

full_reset(s) ==
    [stop_monitoring(reset(s)) EXCEPT !.total_wins = 0,
                                      !.recent_outcomes = << >>,
                                      !.cooldown_remaining = 0,
                                      !.cooldown_type = ""]

enter_cooldown_reset(s) ==
    stop_monitoring([s EXCEPT !.current_bet = s.base_bet,
                              !.consecutive_losses = 0,
                              !.waiting_for_result = FALSE,
                              !.is_active = FALSE,
                              !.recent_outcomes = << >>])

\* start_cooldown / start_win_cooldown
start_win_cooldown(s) ==
    IF s.cooldown_after_win > 0
    THEN stop_monitoring([s EXCEPT !.cooldown_remaining = s.cooldown_after_win,
                                   !.cooldown_type = "win"])
    ELSE s

start_loss_cooldown(s) ==
    IF s.cooldown_after_loss > 0
    THEN stop_monitoring([s EXCEPT !.cooldown_remaining = s.cooldown_after_loss,
                                   !.cooldown_type = "loss"])
    ELSE s

in_cooldown(s) == s.cooldown_remaining > 0

\* a countdown that takes two per round
tick_cooldown_twice(s) ==
    IF s.cooldown_remaining > 0
    THEN [s EXCEPT !.cooldown_remaining = IF @ > 2 THEN @ - 2 ELSE 0]
    ELSE s

\* a countdown that never moves
tick_cooldown_stuck(s) == s

tick_cooldown(s) ==
    IF s.cooldown_remaining > 0
    THEN [s EXCEPT !.cooldown_remaining = @ - 1]
    ELSE s

record_outcome(s, outcome) ==
    LET appended == Append(s.recent_outcomes, outcome)
    IN [s EXCEPT !.recent_outcomes =
            IF Len(appended) > s.loss_check_window THEN Tail(appended) ELSE appended]

losses_in_window(s) ==
    Cardinality({i \in 1..Len(s.recent_outcomes) : s.recent_outcomes[i] = "loss"})

\* a window check that does not wait for the window to fill
should_stop_for_window_losses_anylen(s) ==
    losses_in_window(s) >= s.max_losses_in_window

should_stop_for_window_losses(s) ==
    IF Len(s.recent_outcomes) < s.loss_check_window THEN FALSE
    ELSE losses_in_window(s) >= s.max_losses_in_window

\* a stop on profit that waits for one more win
should_stop_for_profit_late(s) ==
    s.stop_profit_count > 0 /\ s.total_wins > s.stop_profit_count

should_stop_for_profit(s) ==
    s.stop_profit_count > 0 /\ s.total_wins >= s.stop_profit_count

should_activate_on_signal(s, signal_name) ==
    CASE signal_name = "pre_streak" -> s.activate_on_pre_streak_pattern
      [] signal_name = "rule_of_17" -> s.activate_on_rule_of_17
      [] signal_name = "possible_chain" -> s.activate_on_possible_chain
      [] OTHER -> FALSE

should_activate_on_high_stddev(s, window_size) ==
    CASE window_size = 10 -> s.activate_on_high_deviation_10
      [] window_size = 15 -> s.activate_on_high_deviation_15
      [] OTHER -> FALSE

should_activate_on_hotstreak(s, hotstreak_type) ==
    CASE hotstreak_type = "strong" -> s.activate_on_strong_hotstreak
      [] hotstreak_type = "weak" -> s.activate_on_weak_hotstreak
      [] OTHER -> FALSE

\* a confirmation that does not count an outcome equal to the threshold
check_confirmation_above(s, recent_mults) ==
    IF Len(recent_mults) < s.signal_confirm_window THEN FALSE
    ELSE CountAtLeast(LastN(recent_mults, s.signal_confirm_window),
                      Hundredths(s.signal_confirm_threshold) + 1)
            >= s.signal_confirm_count

check_confirmation(s, recent_mults) ==
    IF Len(recent_mults) < s.signal_confirm_window THEN FALSE
    ELSE CountAtLeast(LastN(recent_mults, s.signal_confirm_window),
                      Hundredths(s.signal_confirm_threshold))
            >= s.signal_confirm_count

\* SimulationState.update_stats
update_stats(s, profit) ==
    LET tp == s.total_profit + profit
        peak == IF tp > s.peak_profit THEN tp ELSE s.peak_profit
        drawdown == peak - tp
    IN [s EXCEPT !.total_profit = tp,
                 !.peak_profit = peak,
                 !.max_drawdown = IF drawdown > @ THEN drawdown ELSE @]

\* ------------------------------------------------------------------------
\* State
\* ------------------------------------------------------------------------

VARIABLES
    program,          \* which program runs: "live" (BotEngine.run) or "backtest"
    config,           \* the configuration the program was started with
    pc,               \* position in the run loop / in the per-outcome sequence
    mult,             \* the outcome being processed
    \* live engine (BotEngine)
    tracker, custom, primaries, strategy_active, autopilot, running,
    total_profit, active_name, command_queue,
    last_seen,        \* the last multiplier taken from the page, 0 for None
    \* backtest (BacktestEngine.run)
    bt_tracker, state, bt_run, result,
    \* environment: scripted and free outcomes, sessions, driver failures, GUI clicks
    script, free_left, sessions_left, failures_left, commands_left,
    \* observations of calls made by the handlers
    last_driver, open_bet, cd,
    fed               \* the sessions fed to a recorded replay, outcome by outcome

live_vars == <<tracker, custom, primaries, strategy_active, autopilot, running,
               total_profit, active_name, command_queue, last_seen>>
bt_vars == <<bt_tracker, state, bt_run, result>>
env_vars == <<script, free_left, sessions_left, failures_left, commands_left>>
obs_vars == <<last_driver, open_bet, cd>>
vars == <<program, config, pc, mult, live_vars, bt_vars, env_vars, obs_vars, fed>>

\* ------------------------------------------------------------------------
\* Backtest engine (analysis/custom/backtest_simulator.py)
\* ------------------------------------------------------------------------

\* BacktestEngine._place_bet
place_bet_sim(s) ==
    [s EXCEPT !.is_active = TRUE,
              !.current_bet = next_bet([s EXCEPT !.is_active = TRUE]),
              !.waiting_for_result = TRUE]

\* a stop branch that goes on with the martingale
stop_after_loss_followup(s) ==
    [s EXCEPT !.current_bet = next_bet(s), !.waiting_for_result = TRUE]

\* stop branch shared by the max-loss and the window-loss checks
stop_after_loss(s) ==
    IF s.cooldown_after_loss > 0
    THEN enter_cooldown_reset(start_loss_cooldown(s))
    ELSE full_reset(s)

\* BacktestEngine._handle_result: the new state; the returned profit is
\* total_profit' - total_profit
handle_result(s, m, round_num) ==
    LET bet_amount == s.current_bet IN
    IF m >= s.auto_cashout THEN
        LET profit == WinProfit(bet_amount, s.auto_cashout)
            s1 == update_stats(record_outcome(
                      [s EXCEPT !.total_wins = @ + 1, !.total_bets = @ + 1], "win"),
                      profit)
            s2 == [s1 EXCEPT !.bets_placed = Append(@, <<round_num, bet_amount, m, "win">>),
                             !.win_streak = @ + 1,
                             !.loss_streak = 0,
                             !.max_win_streak =
                                 IF s1.win_streak + 1 > @ THEN s1.win_streak + 1 ELSE @,
                             !.consecutive_losses = 0,
                             !.current_bet = s.base_bet,
                             !.waiting_for_result = FALSE]
        IN IF should_stop_for_profit(s2)
           THEN IF s2.cooldown_after_win > 0
                THEN enter_cooldown_reset(start_win_cooldown([s2 EXCEPT !.total_wins = 0]))
                ELSE full_reset(s2)
           ELSE place_bet_sim(s2)
    ELSE
        LET loss == bet_amount
            s1 == update_stats(record_outcome([s EXCEPT !.total_bets = @ + 1], "loss"),
                               0 - loss)
            s2 == [s1 EXCEPT !.bets_placed = Append(@, <<round_num, bet_amount, m, "loss">>),
                             !.loss_streak = @ + 1,
                             !.win_streak = 0,
                             !.max_loss_streak =
                                 IF s1.loss_streak + 1 > @ THEN s1.loss_streak + 1 ELSE @,
                             !.consecutive_losses = @ + 1]
        IN IF s2.consecutive_losses >= s2.max_consecutive_losses
           THEN stop_after_loss(s2)
           ELSE IF should_stop_for_window_losses(s2)
                THEN stop_after_loss(s2)
                ELSE [s2 EXCEPT !.current_bet = next_bet(s2),
                                !.waiting_for_result = TRUE]

\* BacktestEngine._check_hotstreak_activation
check_hotstreak_activation(s, t) ==
    IF s.is_active \/ s.waiting_for_result \/ in_cooldown(s) THEN s
    ELSE IF t.current_hotstreak = NoHotstreak THEN s
    ELSE IF should_activate_on_hotstreak(s, t.current_hotstreak.type)
         THEN place_bet_sim(stop_monitoring([s EXCEPT !.signals_fired = @ + 1]))
         ELSE s

\* BacktestEngine._signal_triggered
signal_triggered(s, t, reason) ==
    IF s.is_active \/ s.waiting_for_result \/ in_cooldown(s) THEN s
    ELSE LET recent == bt_get_last_n(t, s.signal_confirm_window) IN
         IF check_confirmation(s, recent)
         THEN place_bet_sim([s EXCEPT !.signals_fired = @ + 1])
         ELSE start_monitoring(s, reason, recent)

\* BacktestEngine._monitor_round
\* expiry tried before the confirmation
monitor_round_expiry_first(s, m) ==
    LET s1 == [s EXCEPT !.rounds_monitored = @ + 1,
                        !.monitoring_history = Append(@, m)]
        confirmed ==
            /\ Len(s1.monitoring_history) >= s1.signal_confirm_window
            /\ CountAtLeast(LastN(s1.monitoring_history, s1.signal_confirm_window),
                            Hundredths(s1.signal_confirm_threshold))
                   >= s1.signal_confirm_count
            /\ ~s1.is_active /\ ~in_cooldown(s1)
    IN IF s1.rounds_monitored >= s1.signal_monitor_rounds
       THEN stop_monitoring(s1)
       ELSE IF confirmed
            THEN place_bet_sim(stop_monitoring([s1 EXCEPT !.signals_fired = @ + 1]))
            ELSE s1

monitor_round(s, m) ==
    LET s1 == [s EXCEPT !.rounds_monitored = @ + 1,
                        !.monitoring_history = Append(@, m)]
        confirmed ==
            /\ Len(s1.monitoring_history) >= s1.signal_confirm_window
            /\ CountAtLeast(LastN(s1.monitoring_history, s1.signal_confirm_window),
                            Hundredths(s1.signal_confirm_threshold))
                   >= s1.signal_confirm_count
            /\ ~s1.is_active /\ ~in_cooldown(s1)
    IN IF confirmed
       THEN place_bet_sim(stop_monitoring([s1 EXCEPT !.signals_fired = @ + 1]))
       ELSE IF s1.rounds_monitored >= s1.signal_monitor_rounds
            THEN stop_monitoring(s1)
            ELSE s1

\* the "for win_size, min_len in [(10, 10), (15, 15)]" loop of _analyze_signals
\* for one window size; window is get_last_n(win_size)
WindowSignals(s, window, win_size) ==
    IF Len(window) < win_size THEN << >>
    ELSE LET sigs == analyze_window(window, win_size)
             tag(sig) == IF sig = "high_stddev"
                         THEN IF win_size = 10 THEN "high_stddev_w10" ELSE "high_stddev_w15"
                         ELSE sig
             keep(sig) == IF sig = "high_stddev"
                          THEN should_activate_on_high_stddev(s, win_size)
                          ELSE should_activate_on_signal(s, sig)
         IN SelectSeq([i \in 1..Len(sigs) |-> IF keep(sigs[i]) THEN tag(sigs[i]) ELSE ""],
                      LAMBDA x : x # "")

ChainSignals(s, t, last_10) ==
    IF just_ended_hotstreak(t)
    THEN SelectSeq(check_chain_patterns(t, last_10),
                   LAMBDA sig : should_activate_on_signal(s, sig))
    ELSE << >>

\* BacktestEngine._analyze_signals
analyze_signals_sim(s, t) ==
    IF s.is_active \/ in_hotstreak(t) \/ in_cooldown(s) THEN s
    ELSE LET triggered_signals ==
                 WindowSignals(s, bt_get_last_n(t, 10), 10)
                 \o WindowSignals(s, bt_get_last_n(t, 15), 15)
                 \o ChainSignals(s, t, bt_get_last_n(t, 10))
         IN IF triggered_signals # << >> /\ ~s.is_active
            THEN signal_triggered(s, t, triggered_signals)
            ELSE s

\* the accumulators of BacktestEngine.run before the first session
NewRun == [total_wagered |-> 0, gross_profit |-> 0, gross_loss |-> 0]

\* the body of "for i, mult in enumerate(session.multipliers)" as one step
\* over r = [tracker, state, run]
RunOutcome(r, m) ==
    LET t1 == add_multiplier(r.tracker, m)
        s0 == IF in_cooldown(r.state) THEN tick_cooldown(r.state) ELSE r.state
        s1 == IF s0.waiting_for_result
              THEN handle_result(s0, m, t1.current_round) ELSE s0
        profit == s1.total_profit - s0.total_profit
        wager == IF s1.bets_placed # << >>
                 THEN s1.bets_placed[Len(s1.bets_placed)][2] ELSE 0
        run1 == IF s0.waiting_for_result
                THEN [total_wagered |-> r.run.total_wagered + wager,
                      gross_profit |-> r.run.gross_profit +
                          (IF profit > 0 THEN profit ELSE 0),
                      gross_loss |-> r.run.gross_loss +
                          (IF profit > 0 THEN 0 ELSE 0 - profit)]
                ELSE r.run
        s2 == IF s1.monitoring /\ ~s1.is_active /\ ~in_cooldown(s1)
              THEN monitor_round(s1, m) ELSE s1
        s3 == IF ~in_cooldown(s2) THEN check_hotstreak_activation(s2, t1) ELSE s2
        s4 == IF ~s3.is_active /\ ~s3.waiting_for_result /\ ~in_cooldown(s3)
              THEN analyze_signals_sim(s3, t1) ELSE s3
    IN [tracker |-> t1, state |-> s4, run |-> run1]

\* one session: a new tracker, the state reset, then every outcome in order
RECURSIVE RunOutcomes(_, _)
RunOutcomes(r, ms) ==
    IF ms = << >> THEN r
    ELSE LET r1 == RunOutcome(r, Head(ms))   \* evaluated before the rest is folded
         IN IF r1.tracker.current_round > 0 THEN RunOutcomes(r1, Tail(ms)) ELSE r1

RunSession(r, ms) ==
    RunOutcomes([tracker |-> NewTracker,
                 state |-> [stop_monitoring(reset(r.state))
                               EXCEPT !.cooldown_remaining = 0],
                 run |-> r.run],
                ms)

\* "for session in self.sessions" from a fresh SimulationState
RECURSIVE RunSessions(_, _)
RunSessions(r, sessions) ==
    IF sessions = << >> THEN r
    ELSE RunSessions(RunSession(r, Head(sessions)), Tail(sessions))

RunAll(cfg, sessions) ==
    RunSessions([tracker |-> NewTracker,
                 state |-> NewSimulationState(cfg),
                 run |-> NewRun],
                sessions)

\* the metrics of BacktestResult computed from the final state
Metrics(s) ==
    [total_wins |-> s.total_wins,
     total_bets |-> s.total_bets,
     win_rate |-> IF s.total_bets > 0 THEN <<s.total_wins, s.total_bets>>
                  ELSE <<0, 1>>,
     total_profit |-> s.total_profit]

\* ------------------------------------------------------------------------
\* Live engine (crasher_bot/core/engine.py)
\* ------------------------------------------------------------------------

\* self.custom = None
NoCustom == [none |-> TRUE]

\* no driver call was made by the last step
NoCall == [who |-> "", setup |-> "none", place |-> "none", amount |-> 0]

\* the setup_auto_cashout / place_bet calls a handler made for a strategy and
\* what they returned ("none": not called, "ok": True, "fail": False)
DriverCall(who, setup, place, amount) ==
    [who |-> who, setup |-> setup, place |-> place, amount |-> amount]

\* BotEngine._load_strategies on a fresh engine: enabled primaries in
\* configuration order
LoadPrimaries(cfg) ==
    LET enabled == SelectSeq(cfg.strategies, LAMBDA sc : sc.enabled)
    IN [i \in 1..Len(enabled) |-> NewStrategyState(enabled[i])]

LoadCustom(cfg) ==
    IF cfg.custom_strategy # NoCustom /\ cfg.custom_strategy.enabled
    THEN NewCustomState(cfg.custom_strategy)
    ELSE NoCustom

\* BotEngine._hot_reload: self.config = BotConfig.from_dict(raw_config), then
\* _load_strategies on the running engine. self.primaries is a dict keyed by
\* name: an enabled strategy of the new configuration takes the place of the
\* one of the same name, or is added at the end; no key is ever removed
RECURSIVE PutPrimaries(_, _)
PutPrimaries(prims, scs) ==
    IF scs = << >> THEN prims
    ELSE LET sc == Head(scs)
             i == IF \E j \in 1..Len(prims) : prims[j].name = sc.name
                  THEN CHOOSE j \in 1..Len(prims) : prims[j].name = sc.name
                  ELSE 0
             put == IF i = 0 THEN Append(prims, NewStrategyState(sc))
                    ELSE [prims EXCEPT ![i] = NewStrategyState(sc)]
         IN PutPrimaries(put, Tail(scs))

reload_primaries(prims, cfg) ==
    PutPrimaries(prims, SelectSeq(cfg.strategies, LAMBDA sc : sc.enabled))

\* if cs and cs.enabled: self.custom = CustomState(...); the old object stays
\* otherwise
reload_custom(cst, cfg) ==
    IF cfg.custom_strategy # NoCustom /\ cfg.custom_strategy.enabled
    THEN NewCustomState(cfg.custom_strategy)
    ELSE cst

\* BotConfig.validate: the error messages; username, password and game_url
\* are filled in in every configuration considered
validate(cfg) ==
    (IF cfg.strategies = << >>
     THEN {<<"", "At least one primary strategy is required">>} ELSE {})
    \cup UNION {(IF cfg.strategies[i].base_bet <= 0
                THEN {<<cfg.strategies[i].name, "Base bet must be positive">>}
                ELSE {})
               \cup (IF Hundredths(cfg.strategies[i].auto_cashout) <= 100
                     THEN {<<cfg.strategies[i].name, "Auto cashout must be > 1.0">>}
                     ELSE {})
               : i \in 1..Len(cfg.strategies)}

\* position of a primary in self.primaries, 0 when absent
IndexOf(prims, name) ==
    IF \E i \in 1..Len(prims) : prims[i].name = name
    THEN CHOOSE i \in 1..Len(prims) : prims[i].name = name
    ELSE 0

\* db.get_recent_multipliers(count): the session's last rounds; the session
\* holds the imported page multipliers followed by every accepted round
get_recent_multipliers(t, count) ==
    IF Len(t.recent) >= count THEN LastN(t.recent, count) ELSE t.recent

\* what a custom handler leaves behind: the strategy, engine.strategy_active,
\* the last driver call it made and the change of engine.total_profit
Out(cst, sa, drv, delta) ==
    [custom |-> cst, strategy_active |-> sa, driver |-> drv, delta |-> delta]

\* BotEngine._activate_custom_betting
activate_custom_betting(cst, ok_setup, ok_place) ==
    LET c1 == [stop_monitoring(cst) EXCEPT !.is_active = TRUE]
        bet == next_bet(c1)
    IN IF ~ok_setup
       THEN Out(reset(c1), FALSE, DriverCall("Custom", "fail", "none", 0), 0)
       ELSE IF ok_place
            THEN Out([c1 EXCEPT !.current_bet = bet, !.waiting_for_result = TRUE],
                     TRUE, DriverCall("Custom", "ok", "ok", bet), 0)
            ELSE Out(reset(c1), FALSE, DriverCall("Custom", "ok", "fail", bet), 0)

\* BotEngine._custom_result; sa is engine.strategy_active, auto is
\* engine.autopilot, in_or_ended is
\* tracker.in_hotstreak() or tracker.just_ended_hotstreak()
custom_result(cst, sa, m, auto, in_or_ended, ok_place) ==
    IF m >= cst.auto_cashout THEN
        LET profit == WinProfit(cst.current_bet, cst.auto_cashout)
            c1 == record_outcome([cst EXCEPT !.total_profit = @ + profit,
                                             !.total_wins = @ + 1], "win")
            c2 == [c1 EXCEPT !.consecutive_losses = 0,
                             !.current_bet = cst.base_bet,
                             !.waiting_for_result = FALSE]
        IN IF should_stop_for_profit(c2)
           THEN Out(full_reset(c2), FALSE, NoCall, profit)
           ELSE IF auto /\ in_or_ended
                THEN LET bet == next_bet(c2) IN
                     IF ok_place
                     THEN Out([c2 EXCEPT !.current_bet = bet,
                                         !.waiting_for_result = TRUE],
                              sa, DriverCall("Custom", "none", "ok", bet), profit)
                     ELSE Out(reset(c2), FALSE,
                              DriverCall("Custom", "none", "fail", bet), profit)
                ELSE Out(reset(c2), FALSE, NoCall, profit)
    ELSE
        LET loss == cst.current_bet
            c1 == record_outcome([cst EXCEPT !.total_profit = @ - loss,
                                             !.consecutive_losses = @ + 1], "loss")
        IN IF c1.consecutive_losses >= c1.max_consecutive_losses
           THEN Out(full_reset(c1), FALSE, NoCall, 0 - loss)
           ELSE IF should_stop_for_window_losses(c1)
                THEN Out(full_reset(c1), FALSE, NoCall, 0 - loss)
                ELSE LET bet == next_bet(c1)
                         c2 == [c1 EXCEPT !.current_bet = bet,
                                          !.waiting_for_result = FALSE]
                     IN IF ok_place
                        THEN Out([c2 EXCEPT !.waiting_for_result = TRUE], sa,
                                 DriverCall("Custom", "none", "ok", bet), 0 - loss)
                        ELSE Out(reset(c2), FALSE,
                                 DriverCall("Custom", "none", "fail", bet), 0 - loss)

\* BotEngine._custom_monitor_round
custom_monitor_round(cst, sa, m, auto, ok_setup, ok_place) ==
    LET c1 == [cst EXCEPT !.rounds_monitored = @ + 1,
                          !.monitoring_history = Append(@, m)]
        confirmed ==
            /\ Len(c1.monitoring_history) >= c1.signal_confirm_window
            /\ CountAtLeast(LastN(c1.monitoring_history, c1.signal_confirm_window),
                            Hundredths(c1.signal_confirm_threshold))
                   >= c1.signal_confirm_count
            /\ ~sa /\ auto
    IN IF confirmed
       THEN activate_custom_betting(stop_monitoring(c1), ok_setup, ok_place)
       ELSE IF c1.rounds_monitored >= c1.signal_monitor_rounds
            THEN Out(stop_monitoring(c1), sa, NoCall, 0)
            ELSE Out(c1, sa, NoCall, 0)

\* BotEngine._check_custom_hotstreak
check_custom_hotstreak(cst, sa, t, auto, ok_setup, ok_place) ==
    IF cst.is_active \/ cst.waiting_for_result \/ sa \/ ~auto
    THEN Out(cst, sa, NoCall, 0)
    ELSE IF t.current_hotstreak = NoHotstreak
         THEN Out(cst, sa, NoCall, 0)
         ELSE IF should_activate_on_hotstreak(cst, t.current_hotstreak.type)
              THEN activate_custom_betting(cst, ok_setup, ok_place)
              ELSE Out(cst, sa, NoCall, 0)

\* a signal that is ignored while a monitor runs
custom_signal_triggered_first_wins(cst, sa, t, auto, reason, ok_setup, ok_place) ==
    IF cst.is_active \/ cst.waiting_for_result \/ sa \/ ~auto \/ cst.monitoring
    THEN Out(cst, sa, NoCall, 0)
    ELSE LET recent == get_last_n(t, cst.signal_confirm_window) IN
         IF check_confirmation(cst, recent)
         THEN activate_custom_betting(cst, ok_setup, ok_place)
         ELSE Out(start_monitoring(cst, reason, recent), sa, NoCall, 0)

\* BotEngine._custom_signal_triggered
custom_signal_triggered(cst, sa, t, auto, reason, ok_setup, ok_place) ==
    IF cst.is_active \/ cst.waiting_for_result \/ sa \/ ~auto
    THEN Out(cst, sa, NoCall, 0)
    ELSE LET recent == get_last_n(t, cst.signal_confirm_window) IN
         IF check_confirmation(cst, recent)
         THEN activate_custom_betting(cst, ok_setup, ok_place)
         ELSE Out(start_monitoring(cst, reason, recent), sa, NoCall, 0)

\* BotEngine._analyze_signals; without a custom strategy signals are only logged
analyze_signals(cst, sa, t, auto, ok_setup, ok_place) ==
    IF sa \/ in_hotstreak(t) \/ cst = NoCustom THEN Out(cst, sa, NoCall, 0)
    ELSE LET triggered_signals ==
                 IF cst.is_active THEN << >>
                 ELSE WindowSignals(cst, get_last_n(t, 10), 10)
                      \o WindowSignals(cst, get_last_n(t, 15), 15)
                      \o ChainSignals(cst, t, get_last_n(t, 10))
         IN IF triggered_signals # << >> /\ auto /\ ~cst.is_active /\ ~sa
            THEN custom_signal_triggered(cst, sa, t, auto, triggered_signals,
                                         ok_setup, ok_place)
            ELSE Out(cst, sa, NoCall, 0)

\* BotEngine._try_activate_primary from position i on; oks[i] is what
\* setup_auto_cashout and place_bet return for the i-th primary; acc carries
\* the primaries, engine.strategy_active, the last driver call so far and
\* whether a call has returned False
RECURSIVE try_activate_primary(_, _, _, _)
try_activate_primary(acc, i, t, oks) ==
    IF i > Len(acc.primaries) THEN [acc EXCEPT !.active_name = ""]
    ELSE
      LET s == acc.primaries[i]
          recent == get_recent_multipliers(t, s.trigger_count)
          bet == next_bet(s)
      IN IF s.is_active \/ Len(recent) # s.trigger_count
         THEN try_activate_primary(acc, i + 1, t, oks)
         ELSE IF \A k \in 1..Len(recent) : recent[k] < s.trigger_threshold
         THEN IF ~oks[i][1]
              THEN try_activate_primary(
                       [acc EXCEPT !.strategy_active = FALSE, !.failed = TRUE,
                                   !.driver = DriverCall(s.name, "fail", "none", 0)],
                       i + 1, t, oks)
              ELSE IF oks[i][2]
                   THEN [primaries |-> [acc.primaries EXCEPT
                                           ![i].is_active = TRUE,
                                           ![i].current_bet = bet,
                                           ![i].waiting_for_result = TRUE],
                         strategy_active |-> TRUE,
                         driver |-> DriverCall(s.name, "ok", "ok", bet),
                         active_name |-> s.name, failed |-> acc.failed]
                   ELSE try_activate_primary(
                            [acc EXCEPT !.strategy_active = FALSE, !.failed = TRUE,
                                        !.driver = DriverCall(s.name, "ok", "fail", bet)],
                            i + 1, t, oks)
         ELSE try_activate_primary(acc, i + 1, t, oks)

\* BotEngine._handle_primary_result
handle_primary_result(s, sa, m, name, ok_place) ==
    IF m >= s.auto_cashout
    THEN LET profit == WinProfit(s.current_bet, s.auto_cashout) IN
         [strat |-> reset([s EXCEPT !.total_profit = @ + profit]),
          strategy_active |-> FALSE, active_name |-> "",
          driver |-> NoCall, delta |-> profit]
    ELSE LET loss == s.current_bet
             s1 == [s EXCEPT !.total_profit = @ - loss,
                             !.consecutive_losses = @ + 1]
             s2 == [s1 EXCEPT !.current_bet = next_bet(s1),
                              !.waiting_for_result = FALSE]
         IN IF ok_place
            THEN [strat |-> [s2 EXCEPT !.waiting_for_result = TRUE],
                  strategy_active |-> sa, active_name |-> name,
                  driver |-> DriverCall(s.name, "none", "ok", s2.current_bet),
                  delta |-> 0 - loss]
            ELSE [strat |-> reset(s2),
                  strategy_active |-> FALSE, active_name |-> "",
                  driver |-> DriverCall(s.name, "none", "fail", s2.current_bet),
                  delta |-> 0 - loss]

\* BotEngine._manual_activate_primary: the result of setup_auto_cashout is
\* not looked at, and nothing is undone when place_bet fails
manual_activate_primary(prims, sa, index, ok_setup, ok_place) ==
    IF index < Len(prims)
    THEN LET i == index + 1
             s == [prims[i] EXCEPT !.is_active = TRUE]
             bet == next_bet(s)
             setup == IF ok_setup THEN "ok" ELSE "fail"
         IN IF ok_place
            THEN [primaries |-> [prims EXCEPT ![i] =
                                    [s EXCEPT !.current_bet = bet,
                                              !.waiting_for_result = TRUE]],
                  strategy_active |-> TRUE,
                  driver |-> DriverCall(s.name, setup, "ok", bet)]
            ELSE [primaries |-> [prims EXCEPT ![i] = s],
                  strategy_active |-> TRUE,
                  driver |-> DriverCall(s.name, setup, "fail", bet)]
    ELSE [primaries |-> prims, strategy_active |-> sa, driver |-> NoCall]

\* BotEngine._force_stop_all
force_stop_primaries(prims) == [i \in 1..Len(prims) |-> reset(prims[i])]

force_stop_custom(cst) == IF cst = NoCustom THEN cst ELSE full_reset(cst)

\* BotEngine._check_limits
check_limits(cfg, tp, prims, cst) ==
    /\ ~(tp <= 0 - cfg.max_loss)
    /\ \A i \in 1..Len(prims) :
           ~(prims[i].consecutive_losses >= prims[i].max_consecutive_losses)
    /\ ~(cst # NoCustom /\ cst.consecutive_losses >= cst.max_consecutive_losses)

\* ------------------------------------------------------------------------
\* Inputs: bounds, outcomes, configurations, page / session histories
\* ------------------------------------------------------------------------

MaxFree == 5          \* freely chosen outcomes per backtest run
MaxRounds == 3        \* rounds the live engine sees per run
MaxSessions == 2      \* sessions replayed by one backtest run
MaxCommands == 1      \* GUI clicks per run
MaxFailures == 1      \* driver calls that fail per run

StrategyNames == {"Custom", "P1", "P2"}

\* 1.00x and 2.00x: a low round, and a round that is exactly at the 2.0 mark
Outcomes == {2, 4}

\* CustomStrategyConfig / CustomConfig defaults, with max_consecutive_losses 4
\* and signal_monitor_rounds 3 so that a run reaches them
CustomDefaults ==
    [enabled |-> TRUE,
     base_bet |-> 1000,
     auto_cashout |-> 4,
     max_consecutive_losses |-> 4,
     max_losses_in_window |-> 7,
     loss_check_window |-> 10,
     bet_multiplier |-> 2,
     stop_profit_count |-> 0,
     cooldown_after_win |-> 0,
     cooldown_after_loss |-> 0,
     activate_on_strong_hotstreak |-> TRUE,
     activate_on_weak_hotstreak |-> FALSE,
     activate_on_rule_of_17 |-> TRUE,
     activate_on_pre_streak_pattern |-> TRUE,
     activate_on_possible_chain |-> FALSE,
     activate_on_high_deviation_10 |-> FALSE,
     activate_on_high_deviation_15 |-> FALSE,
     signal_confirm_threshold |-> 4,
     signal_confirm_count |-> 3,
     signal_confirm_window |-> 5,
     signal_monitor_rounds |-> 3]

\* stop after 2 wins, short loss window, cooldowns of 2 rounds
CustomCooldown ==
    [CustomDefaults EXCEPT !.max_consecutive_losses = 2,
                           !.max_losses_in_window = 2,
                           !.loss_check_window = 3,
                           !.stop_profit_count = 2,
                           !.cooldown_after_win = 2,
                           !.cooldown_after_loss = 2,
                           !.activate_on_weak_hotstreak = TRUE,
                           !.signal_confirm_count = 2,
                           !.signal_confirm_window = 3]

\* window-loss stop before the consecutive-loss stop, no cooldown
CustomWindow ==
    [CustomDefaults EXCEPT !.max_consecutive_losses = 3,
                           !.max_losses_in_window = 2,
                           !.loss_check_window = 3,
                           !.stop_profit_count = 2,
                           !.activate_on_weak_hotstreak = TRUE,
                           !.activate_on_high_deviation_10 = TRUE]

\* a window of 2 that slides: no stop on profit, so outcomes keep arriving
CustomShortWindow ==
    [CustomWindow EXCEPT !.loss_check_window = 2,
                         !.stop_profit_count = 0]

PrimaryP1 ==
    [name |-> "P1", base_bet |-> 1000, auto_cashout |-> 4,
     trigger_threshold |-> 4, trigger_count |-> 2,
     max_consecutive_losses |-> 3, bet_multiplier |-> 2, enabled |-> TRUE]

PrimaryP2 ==
    [name |-> "P2", base_bet |-> 500, auto_cashout |-> 6,
     trigger_threshold |-> 4, trigger_count |-> 3,
     max_consecutive_losses |-> 20, bet_multiplier |-> 2, enabled |-> TRUE]

BotConfig(strategies, custom_strategy) ==
    [strategies |-> strategies, custom_strategy |-> custom_strategy,
     max_loss |-> 100000000]

LiveConfigs ==
    {BotConfig(<<PrimaryP1>>, CustomDefaults),
     BotConfig(<<PrimaryP1, PrimaryP2>>,
               [CustomCooldown EXCEPT !.cooldown_after_loss = 0]),
     BotConfig(<<[PrimaryP1 EXCEPT !.enabled = FALSE]>>, CustomWindow)}

BacktestConfigs ==
    {BotConfig(<< >>, CustomDefaults),
     BotConfig(<< >>, CustomCooldown),
     BotConfig(<< >>, CustomWindow),
     BotConfig(<< >>, CustomShortWindow)}

\* histories read from the page at start-up (live) or opening a session
\* (backtest): an empty one, one on the verge of a hotstreak, one with a
\* 100x round about to leave the 10-window, and one with a 100x round that
\* stays in the 10-window for five more rounds
HistEmpty == << >>
HistHot == <<4, 4, 2, 4, 4, 4, 2, 4, 4>>
HistPre == <<200, 4, 4, 4, 2, 2, 2, 2, 2>>
HistMid == <<2, 2, 2, 2, 200, 2, 4, 2, 4>>

Pages == {HistEmpty, HistHot, HistPre, HistMid}
Scripts == {HistHot, HistPre, HistMid}

\* ------------------------------------------------------------------------
\* Initial states
\* ------------------------------------------------------------------------

NoOpenBets == [n \in StrategyNames |-> -1]
NoCooldownSeen == [len |-> 0, age |-> 0]
NoResult == [total_wins |-> 0, total_bets |-> 0, win_rate |-> <<0, 1>>,
             total_profit |-> 0]
\* BotEngine.__init__ followed by the start of run(): the tracker is seeded
\* with the page multipliers
InitLive ==
    /\ program = "live"
    /\ config \in LiveConfigs
    /\ \E page \in Pages :
        /\ tracker = FeedAll(NewTracker, page)
        /\ last_seen = IF page = << >> THEN 0 ELSE page[Len(page)]
    /\ custom = LoadCustom(config)
    /\ primaries = LoadPrimaries(config)
    /\ strategy_active = FALSE
    /\ autopilot = TRUE
    /\ running = TRUE
    /\ total_profit = 0
    /\ active_name = ""
    /\ command_queue = << >>
    /\ pc = "commands"
    /\ bt_tracker = NewTracker
    /\ state = NewSimulationState(config.custom_strategy)
    /\ script = << >>
    /\ free_left = MaxRounds
    /\ sessions_left = 0
    /\ fed = << >>

\* BacktestEngine.run up to the first session's first round
InitBacktest ==
    /\ program = "backtest"
    /\ config \in BacktestConfigs
    /\ tracker = NewTracker
    /\ last_seen = 0
    /\ custom = NoCustom
    /\ primaries = << >>
    /\ strategy_active = FALSE
    /\ autopilot = TRUE
    /\ running = FALSE
    /\ total_profit = 0
    /\ active_name = ""
    /\ command_queue = << >>
    /\ pc = "bt_round"
    /\ bt_tracker = NewTracker
    /\ state = NewSimulationState(config.custom_strategy)
    /\ script \in Scripts
    /\ free_left = MaxFree
    /\ sessions_left = MaxSessions - 1
    /\ fed = << >>

Init ==
    /\ InitLive \/ InitBacktest
    /\ mult = 0
    /\ bt_run = NewRun
    /\ result = NoResult
    /\ commands_left = MaxCommands
    /\ failures_left = MaxFailures
    /\ last_driver = NoCall
    /\ open_bet = NoOpenBets
    /\ cd = NoCooldownSeen

\* ------------------------------------------------------------------------
\* Backtest actions: BacktestEngine.run, one action per step of the loop body
\* ------------------------------------------------------------------------

\* the next multiplier of the session: scripted while the script lasts
NextMults == IF script # << >> THEN {Head(script)}
             ELSE IF free_left > 0 THEN Outcomes ELSE {}

ConsumeInput ==
    /\ script' = IF script # << >> THEN Tail(script) ELSE script
    /\ free_left' = IF script # << >> THEN free_left ELSE free_left - 1

\* a cooldown begun by this step, as seen from the strategy's state
CooldownSeen(before, after) ==
    IF after.cooldown_remaining > 0 /\ before.cooldown_remaining = 0
    THEN [len |-> after.cooldown_remaining, age |-> 0]
    ELSE cd

\* tracker.add_multiplier(mult); if state.in_cooldown(): state.tick_cooldown()
BT_RoundStep ==
    /\ program = "backtest" /\ pc = "bt_round"
    /\ \E m \in NextMults :
        /\ mult' = m
        /\ bt_tracker' = add_multiplier(bt_tracker, m)
    /\ ConsumeInput
    /\ state' = IF in_cooldown(state) THEN tick_cooldown(state) ELSE state
    /\ cd' = IF cd.len > 0 /\ cd.age <= cd.len
             THEN [cd EXCEPT !.age = @ + 1] ELSE cd
    /\ pc' = "bt_result"
    /\ UNCHANGED <<program, config, live_vars, bt_run, result, sessions_left,
                   failures_left, commands_left, last_driver, open_bet>>

BT_Round == BT_RoundStep /\ UNCHANGED fed

\* if state.waiting_for_result: profit = self._handle_result(...)
BT_Result ==
    /\ program = "backtest" /\ pc = "bt_result"
    /\ IF state.waiting_for_result
       THEN LET s1 == handle_result(state, mult, bt_tracker.current_round)
                profit == s1.total_profit - state.total_profit
                wager == IF s1.bets_placed # << >>
                         THEN s1.bets_placed[Len(s1.bets_placed)][2] ELSE 0
            IN /\ state' = s1
               /\ bt_run' = [total_wagered |-> bt_run.total_wagered + wager,
                             gross_profit |-> bt_run.gross_profit +
                                 (IF profit > 0 THEN profit ELSE 0),
                             gross_loss |-> bt_run.gross_loss +
                                 (IF profit > 0 THEN 0 ELSE 0 - profit)]
               /\ cd' = CooldownSeen(state, s1)
               /\ open_bet' = [open_bet EXCEPT !["Custom"] =
                                  IF s1.waiting_for_result
                                  THEN bt_tracker.current_round ELSE -1]
       ELSE UNCHANGED <<state, bt_run, cd, open_bet>>
    /\ pc' = "bt_monitor"
    /\ UNCHANGED <<program, config, fed, mult, live_vars, bt_tracker, result, env_vars,
                   last_driver>>

\* a bet placed by an activation step
OpenedBy(before, after) ==
    IF after.waiting_for_result /\ ~before.waiting_for_result
    THEN [open_bet EXCEPT !["Custom"] = bt_tracker.current_round]
    ELSE open_bet

\* if state.monitoring and not state.is_active and not state.in_cooldown()
BT_Monitor ==
    /\ program = "backtest" /\ pc = "bt_monitor"
    /\ state' = IF state.monitoring /\ ~state.is_active /\ ~in_cooldown(state)
                THEN monitor_round(state, mult)
                ELSE state
    /\ open_bet' = OpenedBy(state, state')
    /\ pc' = "bt_hotstreak"
    /\ UNCHANGED <<program, config, fed, mult, live_vars, bt_tracker, bt_run, result,
                   env_vars, last_driver, cd>>

\* if not state.in_cooldown(): self._check_hotstreak_activation(...)
BT_Hotstreak ==
    /\ program = "backtest" /\ pc = "bt_hotstreak"
    /\ state' = IF ~in_cooldown(state)
                THEN check_hotstreak_activation(state, bt_tracker)
                ELSE state
    /\ open_bet' = OpenedBy(state, state')
    /\ pc' = "bt_signals"
    /\ UNCHANGED <<program, config, fed, mult, live_vars, bt_tracker, bt_run, result,
                   env_vars, last_driver, cd>>

\* if not is_active and not waiting_for_result and not in_cooldown():
\*     self._analyze_signals(...)
BT_Signals ==
    /\ program = "backtest" /\ pc = "bt_signals"
    /\ state' = IF ~state.is_active /\ ~state.waiting_for_result /\ ~in_cooldown(state)
                THEN analyze_signals_sim(state, bt_tracker)
                ELSE state
    /\ open_bet' = OpenedBy(state, state')
    /\ pc' = "bt_round"
    /\ UNCHANGED <<program, config, fed, mult, live_vars, bt_tracker, bt_run, result,
                   env_vars, last_driver, cd>>

\* a next session that goes on with the tracker of the session before it
BT_NextSession_same_tracker(scripts) ==
    /\ program = "backtest" /\ pc = "bt_round"
    /\ script = << >>
    /\ sessions_left > 0
    /\ sessions_left' = sessions_left - 1
    /\ script' \in scripts
    /\ state' = [stop_monitoring(reset(state)) EXCEPT !.cooldown_remaining = 0]
    /\ cd' = NoCooldownSeen
    /\ open_bet' = NoOpenBets
    /\ UNCHANGED <<program, config, pc, mult, live_vars, bt_tracker, bt_run, result,
                   free_left, failures_left, commands_left, last_driver>>

\* the next session of "for session in self.sessions": a new tracker,
\* state.reset(), state.stop_monitoring(), state.cooldown_remaining = 0;
\* the session opens with one of the given histories
BT_NextSession(scripts) ==
    /\ program = "backtest" /\ pc = "bt_round"
    /\ script = << >>
    /\ sessions_left > 0
    /\ sessions_left' = sessions_left - 1
    /\ script' \in scripts
    /\ bt_tracker' = NewTracker
    /\ state' = [stop_monitoring(reset(state)) EXCEPT !.cooldown_remaining = 0]
    /\ cd' = NoCooldownSeen
    /\ open_bet' = NoOpenBets
    /\ UNCHANGED <<program, config, pc, mult, live_vars, bt_run, result, free_left,
                   failures_left, commands_left, last_driver>>

BT_NewSession == BT_NextSession(Scripts) /\ UNCHANGED fed

\* after the last session: the metrics of BacktestResult
BT_Finish ==
    /\ program = "backtest" /\ pc = "bt_round"
    /\ script = << >>
    /\ result' = [total_wins |-> state.total_wins,
                  total_bets |-> state.total_bets,
                  win_rate |-> IF state.total_bets > 0
                               THEN <<state.total_wins, state.total_bets>>
                               ELSE <<0, 1>>,
                  total_profit |-> state.total_profit]
    /\ pc' = "bt_done"
    /\ UNCHANGED <<program, config, fed, mult, live_vars, bt_tracker, state, bt_run,
                   env_vars, obs_vars>>

\* ------------------------------------------------------------------------
\* Live actions: the GUI thread, and BotEngine.run one action per step of
\* the loop body
\* ------------------------------------------------------------------------

\* The GUI thread may put a command at any moment; the engine looks at the
\* queue only in _process_commands and takes the commands in the order they
\* were put, so a click is seen exactly as if it had been made at the top of
\* the loop after the commands of the click before it were processed.
GuiCanClick ==
    /\ program = "live" /\ running /\ pc = "commands"
    /\ command_queue = << >> /\ commands_left > 0

\* a queue that hands out the newest command first
Enqueue_front(cmds) ==
    /\ command_queue' = cmds \o command_queue
    /\ commands_left' = commands_left - 1
    /\ UNCHANGED <<program, config, fed, last_seen, pc, mult, tracker, custom, primaries,
                   strategy_active, autopilot, running, total_profit, active_name,
                   bt_vars, script, free_left, sessions_left, failures_left,
                   obs_vars>>

Enqueue(cmds) ==
    /\ command_queue' = command_queue \o cmds
    /\ commands_left' = commands_left - 1
    /\ UNCHANGED <<program, config, fed, last_seen, pc, mult, tracker, custom, primaries,
                   strategy_active, autopilot, running, total_profit, active_name,
                   bt_vars, script, free_left, sessions_left, failures_left,
                   obs_vars>>

Cmd(action, value) == [action |-> action, value |-> value]

\* Application._toggle_autopilot: the checkbox shows engine.autopilot once the
\* queue is empty, and a click flips it
Gui_ToggleAutopilot ==
    /\ GuiCanClick
    /\ Enqueue(<<Cmd("set_autopilot", ~autopilot)>>)

\* Application._force_stop
Gui_ForceStop ==
    /\ GuiCanClick
    /\ Enqueue(<<Cmd("force_stop", 0)>>)

\* Application._activate_primary: one button per enabled configured strategy
Gui_ActivatePrimary ==
    /\ GuiCanClick
    /\ \E i \in 1..Len(config.strategies) :
        /\ config.strategies[i].enabled
        /\ Enqueue(<<Cmd("set_autopilot", FALSE), Cmd("activate_primary", i - 1)>>)

\* Application._activate_custom
Gui_ActivateCustom ==
    /\ GuiCanClick
    /\ config.custom_strategy.enabled
    /\ Enqueue(<<Cmd("set_autopilot", FALSE), Cmd("activate_custom", 0)>>)

\* a driver call of the step returned False
Failed(drv) == drv.setup = "fail" \/ drv.place = "fail"

\* the driver fails in at most MaxFailures steps of a run
DriverMayFail(failed) ==
    /\ failed => failures_left > 0
    /\ failures_left' = IF failed THEN failures_left - 1 ELSE failures_left

\* a successful place_bet opens a bet for the strategy at the current round
Opened(open, drv) ==
    IF drv.place = "ok" THEN [open EXCEPT ![drv.who] = tracker.current_round]
    ELSE open

\* BotEngine._process_commands, one command of the queue
Live_Command ==
    /\ program = "live" /\ pc = "commands" /\ running
    /\ command_queue # << >>
    /\ LET cmd == Head(command_queue) IN
       /\ command_queue' = Tail(command_queue)
       /\ CASE cmd.action = "set_autopilot" ->
                 /\ autopilot' = cmd.value
                 /\ last_driver' = NoCall
                 /\ UNCHANGED <<config, custom, primaries, strategy_active, open_bet>>
            [] cmd.action = "force_stop" ->
                 /\ primaries' = force_stop_primaries(primaries)
                 /\ custom' = force_stop_custom(custom)
                 /\ strategy_active' = FALSE
                 /\ open_bet' = NoOpenBets
                 /\ last_driver' = NoCall
                 /\ UNCHANGED <<config, autopilot>>
            [] cmd.action = "activate_primary" ->
                 \E ok_setup, ok_place \in BOOLEAN :
                    LET r == manual_activate_primary(primaries, strategy_active,
                                                     cmd.value, ok_setup, ok_place)
                    IN /\ primaries' = r.primaries
                       /\ strategy_active' = r.strategy_active
                       /\ last_driver' = r.driver
                       /\ open_bet' = Opened(open_bet, r.driver)
                       /\ UNCHANGED <<config, custom, autopilot>>
            [] cmd.action = "activate_custom" ->
                 \E ok_setup, ok_place \in BOOLEAN :
                    LET r == IF custom # NoCustom /\ ~custom.is_active
                                /\ ~strategy_active
                             THEN activate_custom_betting(custom, ok_setup, ok_place)
                             ELSE Out(custom, strategy_active, NoCall, 0)
                    IN /\ custom' = r.custom
                       /\ strategy_active' = r.strategy_active
                       /\ last_driver' = r.driver
                       /\ open_bet' = Opened(open_bet, r.driver)
                       /\ UNCHANGED <<config, primaries, autopilot>>
            [] cmd.action = "reload_config" ->
                 /\ config' = cmd.value
                 /\ primaries' = reload_primaries(primaries, cmd.value)
                 /\ custom' = reload_custom(custom, cmd.value)
                 /\ last_driver' = NoCall
                 /\ UNCHANGED <<strategy_active, autopilot, open_bet>>
    /\ UNCHANGED <<program, fed, last_seen, pc, mult, tracker, running, total_profit,
                   active_name, bt_vars, script, free_left,
                   sessions_left, commands_left, cd>>
    /\ DriverMayFail(Failed(last_driver'))

\* the queue is empty: _check_limits, then wait for the round to end
Live_CheckLimits ==
    /\ program = "live" /\ pc = "commands" /\ running
    /\ command_queue = << >>
    /\ IF check_limits(config, total_profit, primaries, custom)
       THEN pc' = "detect" /\ UNCHANGED running
       ELSE pc' = "stopped" /\ running' = FALSE
    /\ last_driver' = NoCall
    /\ UNCHANGED <<program, config, fed, last_seen, mult, tracker, custom, primaries,
                   strategy_active, autopilot, total_profit, active_name,
                   command_queue, bt_vars, env_vars, open_bet, cd>>

\* the rounds the page can show next: the values of Outcomes, and 1.50x or
\* 2.50x where the round is as low or as high as the one before it
LiveOutcomes == Outcomes \cup {m + 1 : m \in Outcomes \cap {last_seen}}

\* mult = driver.detect_round_end(); a value equal to last_seen is taken for
\* the round already seen; the timing guards let the round through:
\* last_seen = mult; db.add_multiplier(mult); tracker.add_multiplier(mult)
Live_Detect ==
    /\ program = "live" /\ pc = "detect"
    /\ free_left > 0
    /\ \E m \in LiveOutcomes :
        /\ m # last_seen
        /\ mult' = m
        /\ last_seen' = m
        /\ tracker' = add_multiplier(tracker, m)
    /\ free_left' = free_left - 1
    /\ pc' = "custom_result"
    /\ UNCHANGED <<program, config, fed, custom, primaries, strategy_active, autopilot,
                   running, total_profit, active_name, command_queue, bt_vars,
                   script, sessions_left, failures_left, commands_left, obs_vars>>

\* the part of the state a custom handler writes
ApplyCustom(r) ==
    /\ custom' = r.custom
    /\ strategy_active' = r.strategy_active
    /\ total_profit' = total_profit + r.delta
    /\ last_driver' = r.driver

\* if self.custom and self.custom.waiting_for_result: self._custom_result(mult)
Live_CustomResult ==
    /\ program = "live" /\ pc = "custom_result"
    /\ IF custom # NoCustom /\ custom.waiting_for_result
       THEN \E ok_place \in BOOLEAN :
              LET r == custom_result(custom, strategy_active, mult, autopilot,
                           in_hotstreak(tracker) \/ just_ended_hotstreak(tracker),
                           ok_place)
              IN /\ ApplyCustom(r)
                 /\ open_bet' = Opened([open_bet EXCEPT !["Custom"] = -1], r.driver)
       ELSE /\ last_driver' = NoCall
            /\ UNCHANGED <<custom, strategy_active, total_profit, open_bet>>
    /\ pc' = "custom_monitor"
    /\ UNCHANGED <<program, config, fed, last_seen, mult, tracker, primaries, autopilot, running,
                   active_name, command_queue, bt_vars, script, free_left,
                   sessions_left, commands_left, cd>>
    /\ DriverMayFail(Failed(last_driver'))

\* if self.custom and self.custom.monitoring and not self.custom.is_active
Live_CustomMonitor ==
    /\ program = "live" /\ pc = "custom_monitor"
    /\ IF custom # NoCustom /\ custom.monitoring /\ ~custom.is_active
       THEN \E ok_setup, ok_place \in BOOLEAN :
              LET r == custom_monitor_round(custom, strategy_active, mult, autopilot,
                                            ok_setup, ok_place)
              IN /\ ApplyCustom(r)
                 /\ open_bet' = Opened(open_bet, r.driver)
       ELSE /\ last_driver' = NoCall
            /\ UNCHANGED <<custom, strategy_active, total_profit, open_bet>>
    /\ pc' = "custom_hotstreak"
    /\ UNCHANGED <<program, config, fed, last_seen, mult, tracker, primaries, autopilot, running,
                   active_name, command_queue, bt_vars, script, free_left,
                   sessions_left, commands_left, cd>>
    /\ DriverMayFail(Failed(last_driver'))

\* if self.custom: self._check_custom_hotstreak()
Live_CustomHotstreak ==
    /\ program = "live" /\ pc = "custom_hotstreak"
    /\ IF custom # NoCustom
       THEN \E ok_setup, ok_place \in BOOLEAN :
              LET r == check_custom_hotstreak(custom, strategy_active, tracker,
                                              autopilot, ok_setup, ok_place)
              IN /\ ApplyCustom(r)
                 /\ open_bet' = Opened(open_bet, r.driver)
       ELSE /\ last_driver' = NoCall
            /\ UNCHANGED <<custom, strategy_active, total_profit, open_bet>>
    /\ pc' = "signals"
    /\ UNCHANGED <<program, config, fed, last_seen, mult, tracker, primaries, autopilot, running,
                   active_name, command_queue, bt_vars, script, free_left,
                   sessions_left, commands_left, cd>>
    /\ DriverMayFail(Failed(last_driver'))

\* if not self.strategy_active and not active_name: self._analyze_signals()
Live_Signals ==
    /\ program = "live" /\ pc = "signals"
    /\ IF ~strategy_active /\ active_name = ""
       THEN \E ok_setup, ok_place \in BOOLEAN :
              LET r == analyze_signals(custom, strategy_active, tracker, autopilot,
                                       ok_setup, ok_place)
              IN /\ ApplyCustom(r)
                 /\ open_bet' = Opened(open_bet, r.driver)
       ELSE /\ last_driver' = NoCall
            /\ UNCHANGED <<custom, strategy_active, total_profit, open_bet>>
    /\ pc' = "primary_result"
    /\ UNCHANGED <<program, config, fed, last_seen, mult, tracker, primaries, autopilot, running,
                   active_name, command_queue, bt_vars, script, free_left,
                   sessions_left, commands_left, cd>>
    /\ DriverMayFail(Failed(last_driver'))

\* if active_name: strat = self.primaries[active_name];
\*     if strat.waiting_for_result: active_name = self._handle_primary_result(...)
Live_PrimaryResult ==
    /\ program = "live" /\ pc = "primary_result"
    /\ LET i == IndexOf(primaries, active_name) IN
       IF active_name # "" /\ primaries[i].waiting_for_result
       THEN \E ok_place \in BOOLEAN :
              LET r == handle_primary_result(primaries[i], strategy_active, mult,
                                             active_name, ok_place)
              IN /\ primaries' = [primaries EXCEPT ![i] = r.strat]
                 /\ strategy_active' = r.strategy_active
                 /\ active_name' = r.active_name
                 /\ total_profit' = total_profit + r.delta
                 /\ last_driver' = r.driver
                 /\ open_bet' = Opened([open_bet EXCEPT ![active_name] = -1], r.driver)
       ELSE /\ last_driver' = NoCall
            /\ UNCHANGED <<primaries, strategy_active, active_name, total_profit,
                           open_bet>>
    /\ pc' = "primary_activate"
    /\ UNCHANGED <<program, config, fed, last_seen, mult, tracker, custom, autopilot, running,
                   command_queue, bt_vars, script, free_left,
                   sessions_left, commands_left, cd>>
    /\ DriverMayFail(Failed(last_driver'))

\* if not active_name and not self.strategy_active and self.autopilot:
\*     if not self.custom or not self.custom.is_active:
\*         active_name = self._try_activate_primary()
Live_PrimaryActivate ==
    /\ program = "live" /\ pc = "primary_activate"
    /\ IF /\ active_name = "" /\ ~strategy_active /\ autopilot
          /\ (custom = NoCustom \/ ~custom.is_active)
       THEN \E oks \in [1..Len(primaries) -> BOOLEAN \X BOOLEAN] :
              LET r == try_activate_primary(
                           [primaries |-> primaries,
                            strategy_active |-> strategy_active,
                            driver |-> NoCall, active_name |-> "",
                            failed |-> FALSE],
                           1, tracker, oks)
              IN /\ DriverMayFail(r.failed)
                 /\ primaries' = r.primaries
                 /\ strategy_active' = r.strategy_active
                 /\ active_name' = r.active_name
                 /\ last_driver' = r.driver
                 /\ open_bet' = Opened(open_bet, r.driver)
       ELSE /\ last_driver' = NoCall
            /\ UNCHANGED <<primaries, strategy_active, active_name, open_bet,
                           failures_left>>
    /\ pc' = "commands"
    /\ UNCHANGED <<program, config, fed, last_seen, mult, tracker, custom, autopilot, running,
                   total_profit, command_queue, bt_vars, script, free_left,
                   sessions_left, commands_left, cd>>

\* ------------------------------------------------------------------------
\* Specification
\* ------------------------------------------------------------------------

Next ==
    \/ BT_Round
    \/ BT_Result
    \/ BT_Monitor
    \/ BT_Hotstreak
    \/ BT_Signals
    \/ BT_NewSession
    \/ BT_Finish
    \/ Gui_ToggleAutopilot
    \/ Gui_ForceStop
    \/ Gui_ActivatePrimary
    \/ Gui_ActivateCustom
    \/ Live_Command
    \/ Live_CheckLimits
    \/ Live_Detect
    \/ Live_CustomResult
    \/ Live_CustomMonitor
    \/ Live_CustomHotstreak
    \/ Live_Signals
    \/ Live_PrimaryResult
    \/ Live_PrimaryActivate

Spec == Init /\ [][Next]_vars

\* ------------------------------------------------------------------------
\* Recorded replay: BacktestEngine.run over sessions that are written down
\* outcome by outcome as they are fed
\* ------------------------------------------------------------------------

ReplayFree == 3       \* freely chosen outcomes per recorded replay
ReplaySessions == 2   \* sessions of a recorded replay

\* the histories a recorded session opens with
ReplayScripts == {HistHot, HistMid}

InitReplay ==
    /\ program = "backtest"
    /\ config \in BacktestConfigs
    /\ tracker = NewTracker
    /\ last_seen = 0
    /\ custom = NoCustom
    /\ primaries = << >>
    /\ strategy_active = FALSE
    /\ autopilot = TRUE
    /\ running = FALSE
    /\ total_profit = 0
    /\ active_name = ""
    /\ command_queue = << >>
    /\ pc = "bt_round"
    /\ bt_tracker = NewTracker
    /\ state = NewSimulationState(config.custom_strategy)
    /\ script \in ReplayScripts
    /\ free_left = ReplayFree
    /\ sessions_left = ReplaySessions - 1
    /\ fed = << << >> >>
    /\ mult = 0
    /\ bt_run = NewRun
    /\ result = NoResult
    /\ commands_left = 0
    /\ failures_left = 0
    /\ last_driver = NoCall
    /\ open_bet = NoOpenBets
    /\ cd = NoCooldownSeen

Replay_Round ==
    /\ BT_RoundStep
    /\ fed' = [fed EXCEPT ![Len(fed)] = Append(@, mult')]

Replay_NewSession ==
    /\ BT_NextSession(ReplayScripts)
    /\ fed' = Append(fed, << >>)

NextReplay ==
    \/ Replay_Round
    \/ BT_Result
    \/ BT_Monitor
    \/ BT_Hotstreak
    \/ BT_Signals
    \/ Replay_NewSession
    \/ BT_Finish

SpecReplay == InitReplay /\ [][NextReplay]_vars

\* ------------------------------------------------------------------------
\* Unattended live run: BotEngine.run with the custom strategy alone, no
\* primaries, no GUI command, a driver that accepts every call
\* ------------------------------------------------------------------------

TwinRounds == 5       \* rounds of an unattended live run

\* custom-strategy parameters of the unattended run, both cooldowns 0
TwinConfigs ==
    {BotConfig(<< >>, CustomDefaults),
     BotConfig(<< >>, CustomWindow)}

InitTwin ==
    /\ program = "live"
    /\ config \in TwinConfigs
    /\ \E page \in Pages :
        /\ tracker = FeedAll(NewTracker, page)
        /\ last_seen = IF page = << >> THEN 0 ELSE page[Len(page)]
    /\ custom = LoadCustom(config)
    /\ primaries = LoadPrimaries(config)
    /\ strategy_active = FALSE
    /\ autopilot = TRUE
    /\ running = TRUE
    /\ total_profit = 0
    /\ active_name = ""
    /\ command_queue = << >>
    /\ pc = "commands"
    /\ bt_tracker = NewTracker
    /\ state = NewSimulationState(config.custom_strategy)
    /\ script = << >>
    /\ free_left = TwinRounds
    /\ sessions_left = 0
    /\ fed = << >>
    /\ mult = 0
    /\ bt_run = NewRun
    /\ result = NoResult
    /\ commands_left = 0
    /\ failures_left = 0
    /\ last_driver = NoCall
    /\ open_bet = NoOpenBets
    /\ cd = NoCooldownSeen

NextTwin ==
    \/ Live_CheckLimits
    \/ Live_Detect
    \/ Live_CustomResult
    \/ Live_CustomMonitor
    \/ Live_CustomHotstreak
    \/ Live_Signals
    \/ Live_PrimaryResult
    \/ Live_PrimaryActivate

SpecTwin == InitTwin /\ [][NextTwin]_vars

\* ------------------------------------------------------------------------
\* The tracker alone: HotstreakTracker fed one outcome at a time, every
\* outcome written down as it is fed
\* ------------------------------------------------------------------------

TrackerFree == 13     \* freely chosen outcomes fed to the tracker
SeedLen == 48         \* length of the long history fed first

\* a long history: two rounds at 2.00x (every seventh round 3.00x), one at
\* 1.00x, and so on
TrackerSeed ==
    [i \in 1..SeedLen |-> IF i % 3 = 0 THEN 2 ELSE IF i % 7 = 0 THEN 6 ELSE 4]

\* a cold streak of five rounds at 1.00x, then a hotstreak on its first round
TrackerCold == <<2, 2, 2, 2, 2, 4, 4, 4, 4, 4, 4, 4>>

\* the same, the hotstreak ended by the fourth of seven rounds at 1.00x, then
\* a round at 7.00x: the first five of the ten rounds that can make a chain
TrackerChain == TrackerCold \o <<2, 2, 2, 2, 2, 2, 2, 14>>

\* the same with a round at 100x after the hotstreak
TrackerChainHigh == TrackerCold \o <<2, 2, 2, 2, 2, 2, 2, 200>>

\* the same with a cold streak of five rounds after the hotstreak ended
TrackerChainCold == TrackerCold \o <<2, 2, 2, 2, 2, 2, 2, 2, 200>>

TrackerSeeds ==
    {<< >>, TrackerSeed, TrackerCold, TrackerChain, TrackerChainHigh, TrackerChainCold}

InitTracker ==
    /\ program = "tracker"
    /\ config = BotConfig(<< >>, NoCustom)
    /\ tracker = NewTracker
    /\ script \in TrackerSeeds
    /\ free_left = TrackerFree
    /\ fed = << << >> >>
    /\ mult = 0
    /\ pc = "add"
    /\ last_seen = 0
    /\ custom = NoCustom
    /\ primaries = << >>
    /\ strategy_active = FALSE
    /\ autopilot = TRUE
    /\ running = FALSE
    /\ total_profit = 0
    /\ active_name = ""
    /\ command_queue = << >>
    /\ bt_tracker = NewTracker
    /\ state = NewSimulationState(CustomDefaults)
    /\ sessions_left = 0
    /\ bt_run = NewRun
    /\ result = NoResult
    /\ commands_left = 0
    /\ failures_left = 0
    /\ last_driver = NoCall
    /\ open_bet = NoOpenBets
    /\ cd = NoCooldownSeen

\* tracker.add_multiplier(m)
Tracker_Add ==
    /\ program = "tracker" /\ pc = "add"
    /\ \E m \in NextMults :
        /\ mult' = m
        /\ tracker' = add_multiplier(tracker, m)
        /\ fed' = [fed EXCEPT ![1] = Append(@, m)]
    /\ ConsumeInput
    /\ UNCHANGED <<program, config, pc, custom, primaries, strategy_active, autopilot,
                   running, total_profit, active_name, command_queue, last_seen,
                   bt_vars, sessions_left, failures_left, commands_left, obs_vars>>

NextTracker == Tracker_Add

SpecTracker == InitTracker /\ [][NextTracker]_vars

\* ------------------------------------------------------------------------
\* The confirmation rule alone: CustomState.check_confirmation applied to a
\* list of recent outcomes, and the same rule as _custom_monitor_round
\* applies it to the monitor's history
\* ------------------------------------------------------------------------

ConfirmLen == 5       \* longest list of recent outcomes tried

\* 1.00x, 2.00x, 2.50x and 3.00x
ConfirmMults == {2, 4, 5, 6}

ConfirmLists == UNION {[1..n -> ConfirmMults] : n \in 0..ConfirmLen}

\* 3 of 5 at 2.0x (the defaults), 2 of 3 at 2.0x, and 3 of 5 at 2.5x
ConfirmConfigs ==
    {BotConfig(<< >>, CustomDefaults),
     BotConfig(<< >>, CustomCooldown),
     BotConfig(<< >>, [CustomDefaults EXCEPT !.signal_confirm_threshold = 5])}

InitConfirm ==
    /\ program = "confirm"
    /\ config \in ConfirmConfigs
    /\ custom = LoadCustom(config)
    /\ script \in ConfirmLists
    /\ pc = "confirm"
    /\ result = NoResult
    /\ tracker = NewTracker
    /\ free_left = 0
    /\ fed = << >>
    /\ mult = 0
    /\ last_seen = 0
    /\ primaries = << >>
    /\ strategy_active = FALSE
    /\ autopilot = TRUE
    /\ running = FALSE
    /\ total_profit = 0
    /\ active_name = ""
    /\ command_queue = << >>
    /\ bt_tracker = NewTracker
    /\ state = NewSimulationState(CustomDefaults)
    /\ sessions_left = 0
    /\ bt_run = NewRun
    /\ commands_left = 0
    /\ failures_left = 0
    /\ last_driver = NoCall
    /\ open_bet = NoOpenBets
    /\ cd = NoCooldownSeen

\* cst.check_confirmation(recent)
Confirm_Check ==
    /\ program = "confirm" /\ pc = "confirm"
    /\ result' = [confirmed |-> check_confirmation(custom, script)]
    /\ pc' = "checked"
    /\ UNCHANGED <<program, config, fed, mult, live_vars, bt_tracker, state, bt_run,
                   env_vars, obs_vars>>

\* _custom_monitor_round(mult) for a monitor that holds all but the last
\* outcome of the list
Confirm_Monitor ==
    /\ program = "confirm" /\ pc = "confirm"
    /\ script # << >>
    /\ LET n == Len(script)
           cst == start_monitoring(custom, "signal", SubSeq(script, 1, n - 1))
           r == custom_monitor_round(cst, strategy_active, script[n], autopilot,
                                     TRUE, TRUE)
       IN /\ mult' = script[n]
          /\ custom' = r.custom
          /\ strategy_active' = r.strategy_active
          /\ last_driver' = r.driver
    /\ pc' = "monitored"
    /\ UNCHANGED <<program, config, fed, tracker, primaries, autopilot, running,
                   total_profit, active_name, command_queue, last_seen, bt_vars,
                   env_vars, open_bet, cd>>

NextConfirm == Confirm_Check \/ Confirm_Monitor

SpecConfirm == InitConfirm /\ [][NextConfirm]_vars

\* ------------------------------------------------------------------------
\* The window analysis alone: analyze_window applied to the last 10 and the
\* last 15 outcomes of a history, as the loop of _analyze_signals does
\* ------------------------------------------------------------------------

WindowTwos == 5       \* most rounds at 2.00x in a history tried

\* 1.00x, 7.00x, 7.50x, 50x, 100x and 120x
WindowHighs == {2, 14, 15, 100, 200, 240}

\* a history of 15 outcomes: one outcome hi at position k, c rounds at 2.00x
\* at the end, the rest at 1.00x
WindowHistory(hi, k, c) ==
    [i \in 1..15 |->
        IF i = k THEN hi
        ELSE IF i > 15 - c - (IF k > 15 - c THEN 1 ELSE 0) THEN 4 ELSE 2]

WindowHistories ==
    {WindowHistory(hi, k, c) : hi \in WindowHighs, k \in {3, 12}, c \in 0..WindowTwos}

InitWindow ==
    /\ program = "window"
    /\ config = BotConfig(<< >>, NoCustom)
    /\ script \in WindowHistories
    /\ pc = "analyze"
    /\ result = NoResult
    /\ tracker = NewTracker
    /\ custom = NoCustom
    /\ free_left = 0
    /\ fed = << >>
    /\ mult = 0
    /\ last_seen = 0
    /\ primaries = << >>
    /\ strategy_active = FALSE
    /\ autopilot = TRUE
    /\ running = FALSE
    /\ total_profit = 0
    /\ active_name = ""
    /\ command_queue = << >>
    /\ bt_tracker = NewTracker
    /\ state = NewSimulationState(CustomDefaults)
    /\ sessions_left = 0
    /\ bt_run = NewRun
    /\ commands_left = 0
    /\ failures_left = 0
    /\ last_driver = NoCall
    /\ open_bet = NoOpenBets
    /\ cd = NoCooldownSeen

\* analyze_window(window, 10) on the last 10 outcomes
Window_Analyze10 ==
    /\ program = "window" /\ pc = "analyze"
    /\ result' = [signals |-> analyze_window(LastN(script, 10), 10)]
    /\ pc' = "analyzed_10"
    /\ UNCHANGED <<program, config, fed, mult, live_vars, bt_tracker, state, bt_run,
                   env_vars, obs_vars>>

\* analyze_window(window, 15) on the last 15 outcomes
Window_Analyze15 ==
    /\ program = "window" /\ pc = "analyze"
    /\ result' = [signals |-> analyze_window(LastN(script, 15), 15)]
    /\ pc' = "analyzed_15"
    /\ UNCHANGED <<program, config, fed, mult, live_vars, bt_tracker, state, bt_run,
                   env_vars, obs_vars>>

NextWindow == Window_Analyze10 \/ Window_Analyze15

SpecWindow == InitWindow /\ [][NextWindow]_vars

\* ------------------------------------------------------------------------
\* Start-up and hot reload: cli.main / Application._start_bot validate the
\* configuration and build the engine; Application._apply_changes sends the
\* edited configuration to the running engine
\* ------------------------------------------------------------------------

StartRounds == 2      \* rounds of a run started here
StartReloads == 1     \* configurations applied while the engine runs

\* a custom strategy cashing out at 1.00x
CustomAtOne == [CustomDefaults EXCEPT !.auto_cashout = 2]

\* the custom card switched off
CustomOff == [CustomDefaults EXCEPT !.enabled = FALSE]

\* configurations on disk or in the editor: a sound one, one with the custom
\* strategy at 1.00x, one with a primary at 1.00x, one with a primary betting
\* nothing, and one with no strategy at all
StartConfigs ==
    {BotConfig(<<PrimaryP1>>, CustomDefaults),
     BotConfig(<<PrimaryP1>>, CustomAtOne),
     BotConfig(<<[PrimaryP1 EXCEPT !.auto_cashout = 2]>>, CustomDefaults),
     BotConfig(<<[PrimaryP2 EXCEPT !.base_bet = 0]>>, CustomDefaults),
     BotConfig(<< >>, CustomOff)}

InitStart ==
    /\ program = "start"
    /\ config \in StartConfigs
    /\ tracker = NewTracker
    /\ last_seen = 0
    /\ custom = NoCustom
    /\ primaries = << >>
    /\ strategy_active = FALSE
    /\ autopilot = TRUE
    /\ running = FALSE
    /\ total_profit = 0
    /\ active_name = ""
    /\ command_queue = << >>
    /\ pc = "validate"
    /\ bt_tracker = NewTracker
    /\ state = NewSimulationState(CustomDefaults)
    /\ script = << >>
    /\ free_left = StartRounds
    /\ sessions_left = 0
    /\ fed = << >>
    /\ mult = 0
    /\ bt_run = NewRun
    /\ result = NoResult
    /\ commands_left = StartReloads
    /\ failures_left = 0
    /\ last_driver = NoCall
    /\ open_bet = NoOpenBets
    /\ cd = NoCooldownSeen

\* errors = cfg.validate(); with errors the program stops before BotEngine is
\* built; without, BotEngine(cfg) loads the strategies and run() reads the
\* page
Start_Bot ==
    /\ program = "start" /\ pc = "validate"
    /\ IF validate(config) # {}
       THEN /\ pc' = "rejected"
            /\ UNCHANGED <<program, tracker, last_seen, custom, primaries, running>>
       ELSE /\ program' = "live"
            /\ pc' = "commands"
            /\ running' = TRUE
            /\ custom' = LoadCustom(config)
            /\ primaries' = LoadPrimaries(config)
            /\ \E page \in Pages :
                /\ tracker' = FeedAll(NewTracker, page)
                /\ last_seen' = IF page = << >> THEN 0 ELSE page[Len(page)]
    /\ UNCHANGED <<config, fed, mult, strategy_active, autopilot, total_profit,
                   active_name, command_queue, bt_vars, env_vars, obs_vars>>

\* Application._apply_changes: the cards are written to self.config and saved,
\* and a running engine is sent the whole configuration
Gui_ApplyChanges ==
    /\ GuiCanClick
    /\ \E cfg \in StartConfigs :
        Enqueue(<<Cmd("reload_config", cfg)>>)

NextStart ==
    \/ Start_Bot
    \/ Gui_ApplyChanges
    \/ Live_Command
    \/ Live_CheckLimits
    \/ Live_Detect
    \/ Live_CustomResult
    \/ Live_CustomMonitor
    \/ Live_CustomHotstreak
    \/ Live_Signals
    \/ Live_PrimaryResult
    \/ Live_PrimaryActivate

SpecStart == InitStart /\ [][NextStart]_vars

\* ------------------------------------------------------------------------
\* The offline primary simulator: simulate of
\* analysis/primary/primary_strategy_optimizer.py, one action per iteration
\* of its loops. script holds mults, config the other arguments and result
\* the local variables
\* ------------------------------------------------------------------------

SimLen == 6           \* rounds of a simulated history

SimMults == {2, 4, 6}

SimHistories == UNION {[1..n -> SimMults] : n \in 0..SimLen}

SimArgs(cashout, threshold, trigger_count, base_bet, bet_mult, max_mr) ==
    [cashout |-> cashout, threshold |-> threshold, trigger_count |-> trigger_count,
     base_bet |-> base_bet, bet_mult |-> bet_mult, max_mr |-> max_mr]

\* cashout and threshold at 2.00x, or cashout at 3.00x over a 2.00x
\* threshold; one or two rounds to the trigger, one or two bets a sequence
SimConfigs ==
    {SimArgs(4, 4, tc, 1000, 2, mr) : tc \in 1..2, mr \in 1..2}
    \cup {SimArgs(6, 4, 1, 1000, 2, 2)}

\* the locals at the top of simulate
NewSimulate ==
    [total_profit |-> 0, total_fired |-> 0, busts |-> 0, streak |-> 0, i |-> 0,
     bet |-> 0, lost_so_far |-> 0, won |-> FALSE, placed |-> 0]

InitSimulate ==
    /\ program = "simulate"
    /\ config \in SimConfigs
    /\ script \in SimHistories
    /\ pc = "sim_round"
    /\ result = NewSimulate
    /\ tracker = NewTracker
    /\ custom = NoCustom
    /\ free_left = 0
    /\ fed = << >>
    /\ mult = 0
    /\ last_seen = 0
    /\ primaries = << >>
    /\ strategy_active = FALSE
    /\ autopilot = TRUE
    /\ running = FALSE
    /\ total_profit = 0
    /\ active_name = ""
    /\ command_queue = << >>
    /\ bt_tracker = NewTracker
    /\ state = NewSimulationState(CustomDefaults)
    /\ sessions_left = 0
    /\ bt_run = NewRun
    /\ commands_left = 0
    /\ failures_left = 0
    /\ last_driver = NoCall
    /\ open_bet = NoOpenBets
    /\ cd = NoCooldownSeen

SimUnchanged ==
    UNCHANGED <<program, config, fed, live_vars, bt_tracker, state, bt_run,
                env_vars, obs_vars>>

\* while i < n: the streak is counted on mults[i]; at trigger_count the
\* trigger fires and the martingale loop is entered
Sim_Round ==
    /\ program = "simulate" /\ pc = "sim_round"
    /\ result.i < Len(script)
    /\ LET m == script[result.i + 1]
           streak == IF Hundredths(m) < Hundredths(config.threshold)
                     THEN result.streak + 1 ELSE 0
           r == [result EXCEPT !.streak = streak, !.i = @ + 1]
       IN /\ mult' = m
          /\ IF streak = config.trigger_count
             THEN /\ result' = [r EXCEPT !.total_fired = @ + 1,
                                         !.bet = config.base_bet,
                                         !.lost_so_far = 0,
                                         !.won = FALSE,
                                         !.placed = 0]
                  /\ pc' = "sim_bet"
             ELSE /\ result' = r
                  /\ pc' = "sim_round"
    /\ SimUnchanged

\* one pass of "for _ in range(max_mr)" that reads a round: a win books
\* bet * (cashout - 1) - lost_so_far and leaves the loop, a loss adds the bet
\* to lost_so_far and multiplies it
Sim_Bet ==
    /\ program = "simulate" /\ pc = "sim_bet"
    /\ result.placed < config.max_mr
    /\ result.i < Len(script)
    /\ LET m2 == script[result.i + 1]
           r == [result EXCEPT !.i = @ + 1, !.placed = @ + 1]
       IN /\ mult' = m2
          /\ IF Hundredths(m2) >= Hundredths(config.cashout)
             THEN /\ result' = [r EXCEPT
                                   !.total_profit =
                                       @ + WinProfit(r.bet, config.cashout)
                                         - r.lost_so_far,
                                   !.won = TRUE,
                                   !.streak = 0]
                  /\ pc' = "sim_round"
             ELSE /\ result' = [r EXCEPT !.lost_so_far = @ + r.bet,
                                         !.bet = @ * config.bet_mult]
                  /\ pc' = "sim_bet"
    /\ SimUnchanged

\* the loop is left without a win, through the end of range(max_mr) or
\* through "if i >= n: break": if not won, the losses are booked and busts
\* goes up
Sim_NotWon ==
    /\ program = "simulate" /\ pc = "sim_bet"
    /\ result.placed >= config.max_mr \/ result.i >= Len(script)
    /\ result' = [result EXCEPT !.total_profit = @ - result.lost_so_far,
                                !.busts = @ + 1,
                                !.streak = 0]
    /\ pc' = "sim_round"
    /\ UNCHANGED mult
    /\ SimUnchanged

\* return total_profit, total_fired, busts
Sim_Return ==
    /\ program = "simulate" /\ pc = "sim_round"
    /\ result.i >= Len(script)
    /\ pc' = "sim_done"
    /\ UNCHANGED <<result, mult>>
    /\ SimUnchanged

NextSimulate == Sim_Round \/ Sim_Bet \/ Sim_NotWon \/ Sim_Return

SpecSimulate == InitSimulate /\ [][NextSimulate]_vars

\* ------------------------------------------------------------------------
\* The GUI thread beside the engine thread: a button may be pressed at any
\* point of BotEngine.run, also while an outcome is being processed and
\* while earlier commands are still queued
\* ------------------------------------------------------------------------

ThreadRounds == 2     \* rounds of a run with a free-running GUI thread
ThreadClicks == 2     \* buttons pressed during the run

\* what one press of a button puts on engine.command_queue
ButtonCommands(cfg) ==
    {<<Cmd("set_autopilot", v)>> : v \in BOOLEAN}
    \cup {<<Cmd("force_stop", 0)>>}
    \cup {<<Cmd("set_autopilot", FALSE), Cmd("activate_primary", i - 1)>> :
             i \in {j \in 1..Len(cfg.strategies) : cfg.strategies[j].enabled}}
    \cup {<<Cmd("set_autopilot", FALSE), Cmd("activate_custom", 0)>>}
    \cup {<<Cmd("reload_config", BotConfig(<<PrimaryP1, PrimaryP2>>, CustomWindow))>>}

InitThread ==
    /\ program = "live"
    /\ config = BotConfig(<<PrimaryP1>>, CustomDefaults)
    /\ \E page \in {HistEmpty, HistHot} :
        /\ tracker = FeedAll(NewTracker, page)
        /\ last_seen = IF page = << >> THEN 0 ELSE page[Len(page)]
    /\ custom = LoadCustom(config)
    /\ primaries = LoadPrimaries(config)
    /\ strategy_active = FALSE
    /\ autopilot = TRUE
    /\ running = TRUE
    /\ total_profit = 0
    /\ active_name = ""
    /\ command_queue = << >>
    /\ pc = "commands"
    /\ bt_tracker = NewTracker
    /\ state = NewSimulationState(config.custom_strategy)
    /\ script = << >>
    /\ free_left = ThreadRounds
    /\ sessions_left = 0
    /\ fed = << >>
    /\ mult = 0
    /\ bt_run = NewRun
    /\ result = NoResult
    /\ commands_left = ThreadClicks
    /\ failures_left = 0
    /\ last_driver = NoCall
    /\ open_bet = NoOpenBets
    /\ cd = NoCooldownSeen

\* Application._toggle_autopilot, _force_stop, _activate_primary,
\* _activate_custom and _apply_changes on the GUI thread: command_queue.put,
\* wherever the engine thread is
Gui_Press ==
    /\ program = "live" /\ running
    /\ commands_left > 0
    /\ \E cmds \in ButtonCommands(config) : Enqueue(cmds)

NextThread ==
    \/ Gui_Press
    \/ Live_Command
    \/ Live_CheckLimits
    \/ Live_Detect
    \/ Live_CustomResult
    \/ Live_CustomMonitor
    \/ Live_CustomHotstreak
    \/ Live_Signals
    \/ Live_PrimaryResult
    \/ Live_PrimaryActivate

SpecThread == InitThread /\ [][NextThread]_vars

\* ------------------------------------------------------------------------
\* Primaries alone: BotEngine.run on autopilot with two primary strategies
\* that stop after two losses, no custom strategy, no GUI command, a driver
\* that accepts every call
\* ------------------------------------------------------------------------

PrimaryRounds == 4    \* rounds of a run of the primaries

PrimaryConfigs ==
    {BotConfig(<<[PrimaryP1 EXCEPT !.max_consecutive_losses = 2],
                 [PrimaryP2 EXCEPT !.max_consecutive_losses = 2]>>, CustomOff)}

InitPrimary ==
    /\ program = "live"
    /\ config \in PrimaryConfigs
    /\ \E page \in Pages :
        /\ tracker = FeedAll(NewTracker, page)
        /\ last_seen = IF page = << >> THEN 0 ELSE page[Len(page)]
    /\ custom = LoadCustom(config)
    /\ primaries = LoadPrimaries(config)
    /\ strategy_active = FALSE
    /\ autopilot = TRUE
    /\ running = TRUE
    /\ total_profit = 0
    /\ active_name = ""
    /\ command_queue = << >>
    /\ pc = "commands"
    /\ bt_tracker = NewTracker
    /\ state = NewSimulationState(config.custom_strategy)
    /\ script = << >>
    /\ free_left = PrimaryRounds
    /\ sessions_left = 0
    /\ fed = << >>
    /\ mult = 0
    /\ bt_run = NewRun
    /\ result = NoResult
    /\ commands_left = 0
    /\ failures_left = 0
    /\ last_driver = NoCall
    /\ open_bet = NoOpenBets
    /\ cd = NoCooldownSeen

SpecPrimary == InitPrimary /\ [][NextTwin]_vars

\* ------------------------------------------------------------------------
\* Unattended live run with a confirmation window longer than the history
\* the page shows at start-up
\* ------------------------------------------------------------------------

MonitorRounds == 3    \* rounds of the run

\* 3 of the last 11 outcomes at 2.00x or above
CustomLongWindow == [CustomDefaults EXCEPT !.signal_confirm_window = 11]

InitMonitor ==
    /\ program = "live"
    /\ config \in {BotConfig(<< >>, CustomLongWindow), BotConfig(<< >>, CustomDefaults)}
    /\ \E page \in Pages :
        /\ tracker = FeedAll(NewTracker, page)
        /\ last_seen = IF page = << >> THEN 0 ELSE page[Len(page)]
    /\ custom = LoadCustom(config)
    /\ primaries = LoadPrimaries(config)
    /\ strategy_active = FALSE
    /\ autopilot = TRUE
    /\ running = TRUE
    /\ total_profit = 0
    /\ active_name = ""
    /\ command_queue = << >>
    /\ pc = "commands"
    /\ bt_tracker = NewTracker
    /\ state = NewSimulationState(config.custom_strategy)
    /\ script = << >>
    /\ free_left = MonitorRounds
    /\ sessions_left = 0
    /\ fed = << >>
    /\ mult = 0
    /\ bt_run = NewRun
    /\ result = NoResult
    /\ commands_left = 0
    /\ failures_left = 0
    /\ last_driver = NoCall
    /\ open_bet = NoOpenBets
    /\ cd = NoCooldownSeen

SpecMonitor == InitMonitor /\ [][NextTwin]_vars

\* ------------------------------------------------------------------------
\* Betting episodes: the custom strategy with a stop on profit after 2 wins
\* and a stop after 2 consecutive losses, the loss window out of reach, in
\* the unattended live run and in the backtest
\* ------------------------------------------------------------------------

EpisodeRounds == 6     \* freely chosen outcomes per run
EpisodeSessions == 2   \* sessions of the backtest run

CustomEpisode ==
    [CustomDefaults EXCEPT !.max_consecutive_losses = 2,
                           !.stop_profit_count = 2,
                           !.activate_on_weak_hotstreak = TRUE]

\* without cooldowns, and with cooldowns of one round (backtest)
EpisodeConfigs ==
    {BotConfig(<< >>, CustomEpisode),
     BotConfig(<< >>, [CustomEpisode EXCEPT !.cooldown_after_win = 1,
                                            !.cooldown_after_loss = 1])}

InitEpisode ==
    /\ program \in {"live", "backtest"}
    /\ config \in EpisodeConfigs
    /\ IF program = "live"
       THEN /\ \E page \in {HistHot, HistMid} :
                /\ tracker = FeedAll(NewTracker, page)
                /\ last_seen = page[Len(page)]
            /\ custom = LoadCustom(config)
            /\ primaries = LoadPrimaries(config)
            /\ running = TRUE
            /\ pc = "commands"
            /\ script = << >>
            /\ sessions_left = 0
       ELSE /\ tracker = NewTracker
            /\ last_seen = 0
            /\ custom = NoCustom
            /\ primaries = << >>
            /\ running = FALSE
            /\ pc = "bt_round"
            /\ script \in {HistHot, HistMid}
            /\ sessions_left = EpisodeSessions - 1
    /\ strategy_active = FALSE
    /\ autopilot = TRUE
    /\ total_profit = 0
    /\ active_name = ""
    /\ command_queue = << >>
    /\ bt_tracker = NewTracker
    /\ state = NewSimulationState(config.custom_strategy)
    /\ free_left = EpisodeRounds
    /\ fed = << >>
    /\ mult = 0
    /\ bt_run = NewRun
    /\ result = NoResult
    /\ commands_left = 0
    /\ failures_left = 0
    /\ last_driver = NoCall
    /\ open_bet = NoOpenBets
    /\ cd = NoCooldownSeen

NextEpisode ==
    \/ BT_Round
    \/ BT_Result
    \/ BT_Monitor
    \/ BT_Hotstreak
    \/ BT_Signals
    \/ BT_NewSession
    \/ BT_Finish
    \/ NextTwin

SpecEpisode == InitEpisode /\ [][NextEpisode]_vars

\* ------------------------------------------------------------------------
\* Properties
\* ------------------------------------------------------------------------

\* a bet in flight is sized base_bet * bet_multiplier^consecutive_losses
C1_Sized ==
    /\ program = "live" =>
        /\ custom # NoCustom /\ custom.waiting_for_result =>
               custom.current_bet =
                   custom.base_bet * Pow(custom.bet_multiplier, custom.consecutive_losses)
        /\ \A i \in 1..Len(primaries) :
               primaries[i].waiting_for_result =>
                   primaries[i].current_bet =
                       primaries[i].base_bet * Pow(primaries[i].bet_multiplier,
                                                   primaries[i].consecutive_losses)
    /\ program = "backtest" =>
           (state.waiting_for_result =>
               state.current_bet =
                   state.base_bet * Pow(state.bet_multiplier, state.consecutive_losses))

\* the step that resolves a bet as a win leaves consecutive_losses = 0 and
\* current_bet = base_bet
C1_AfterWin ==
    /\ (/\ program = "live" /\ pc = "custom_result" /\ custom # NoCustom
        /\ custom.waiting_for_result /\ mult >= custom.auto_cashout)
           => custom'.consecutive_losses = 0 /\ custom'.current_bet = custom.base_bet
    /\ (/\ program = "live" /\ pc = "primary_result" /\ active_name # ""
        /\ primaries[IndexOf(primaries, active_name)].waiting_for_result
        /\ mult >= primaries[IndexOf(primaries, active_name)].auto_cashout)
           => LET i == IndexOf(primaries, active_name) IN
              /\ primaries'[i].consecutive_losses = 0
              /\ primaries'[i].current_bet = primaries[i].base_bet
    /\ (/\ program = "backtest" /\ pc = "bt_result"
        /\ state.waiting_for_result /\ mult >= state.auto_cashout)
           => state'.consecutive_losses = 0 /\ state'.current_bet = state.base_bet

\* C1: whenever a custom or primary bet is in flight, current_bet equals
\* base_bet * bet_multiplier^consecutive_losses (live engine and backtest);
\* after any win consecutive_losses is 0 and current_bet is base_bet.
C1_Martingale == []C1_Sized /\ [][C1_AfterWin]_vars

\* the live custom strategy has a bet in flight after 3 consecutive losses
C1_Witness ==
    /\ program = "live" /\ custom # NoCustom
    /\ custom.waiting_for_result /\ custom.consecutive_losses = 3
    /\ custom.current_bet = 8 * custom.base_bet

\* a custom bet in flight has fewer than max_consecutive_losses losses behind it
C2_InFlight ==
    /\ program = "live" /\ custom # NoCustom /\ custom.waiting_for_result =>
           custom.consecutive_losses < custom.max_consecutive_losses
    /\ program = "backtest" /\ state.waiting_for_result =>
           state.consecutive_losses < state.max_consecutive_losses

\* the step that resolves the L-th consecutive loss leaves the strategy out of
\* Active and asks for no further bet
C2_LastLoss ==
    /\ (/\ program = "live" /\ pc = "custom_result" /\ custom # NoCustom
        /\ custom.waiting_for_result /\ mult < custom.auto_cashout
        /\ custom.consecutive_losses + 1 >= custom.max_consecutive_losses)
           => /\ ~custom'.is_active /\ ~custom'.waiting_for_result
              /\ last_driver'.place = "none"
    /\ (/\ program = "backtest" /\ pc = "bt_result"
        /\ state.waiting_for_result /\ mult < state.auto_cashout
        /\ state.consecutive_losses + 1 >= state.max_consecutive_losses)
           => ~state'.is_active /\ ~state'.waiting_for_result

\* C2: once max_consecutive_losses custom bets in a row have lost, the custom
\* strategy leaves Active and no martingale follow-up is placed; while a custom
\* bet is in flight consecutive_losses is below max_consecutive_losses.
C2_StopOnLosses == []C2_InFlight /\ [][C2_LastLoss]_vars

\* the backtest has just resolved the 4th loss in a row of a strategy with
\* max_consecutive_losses = 4
C2_Witness ==
    /\ program = "backtest" /\ pc = "bt_monitor"
    /\ state.max_consecutive_losses = 4 /\ state.loss_streak = 4
    /\ state.bets_placed # << >>
    /\ state.bets_placed[Len(state.bets_placed)][1] = bt_tracker.current_round
    /\ ~state.is_active /\ ~state.waiting_for_result

\* C3: a strategy's waiting_for_result is true only if the most recent
\* place_bet made for it returned success: right after a place_bet that
\* returned False, the strategy it was made for is not waiting for a result.
C3_WaitingOnlyAfterPlaced ==
    program = "live" /\ last_driver.place = "fail" =>
        IF last_driver.who = "Custom"
        THEN ~custom.waiting_for_result
        ELSE ~primaries[IndexOf(primaries, last_driver.who)].waiting_for_result

\* C4: on every activation path of the live engine, when setup_auto_cashout
\* or place_bet fails the affected strategy ends Idle (not active, not waiting
\* for a result), engine.strategy_active is false and the engine keeps running.
C4_FailureRollsBack ==
    program = "live" /\ Failed(last_driver) =>
        /\ IF last_driver.who = "Custom"
           THEN ~custom.is_active /\ ~custom.waiting_for_result
           ELSE LET s == primaries[IndexOf(primaries, last_driver.who)]
                IN ~s.is_active /\ ~s.waiting_for_result
        /\ ~strategy_active
        /\ running

\* C5: every bet placed is resolved against the first outcome accepted after
\* its placement: when the processing of an outcome is over, a bet still open
\* was placed while that outcome, and no earlier one, was the latest.
C5_ResolvedByNextOutcome ==
    /\ program = "live" /\ pc = "commands" =>
           \A n \in StrategyNames : open_bet[n] \in {-1, tracker.current_round}
    /\ program = "backtest" /\ pc = "bt_round" =>
           open_bet["Custom"] \in {-1, bt_tracker.current_round}

\* the step that resolves the custom win which brings total_wins to
\* stop_profit_count: a win cooldown when cooldown_after_win is configured, a
\* full reset otherwise
C6_StopStep ==
    /\ (/\ program = "live" /\ pc = "custom_result" /\ custom # NoCustom
        /\ custom.waiting_for_result /\ mult >= custom.auto_cashout
        /\ custom.stop_profit_count > 0
        /\ custom.total_wins + 1 >= custom.stop_profit_count)
           => /\ custom'.total_wins = 0
              /\ custom'.consecutive_losses = 0
              /\ custom'.current_bet = custom.base_bet
              /\ ~custom'.is_active /\ ~custom'.waiting_for_result
              /\ ~custom'.monitoring /\ custom'.monitoring_history = << >>
              /\ custom'.recent_outcomes = << >>
              /\ custom'.total_profit = custom.total_profit
                     + WinProfit(custom.current_bet, custom.auto_cashout)
              /\ custom'.cooldown_remaining = config.custom_strategy.cooldown_after_win
    /\ (/\ program = "backtest" /\ pc = "bt_result"
        /\ state.waiting_for_result /\ mult >= state.auto_cashout
        /\ state.stop_profit_count > 0
        /\ state.total_wins + 1 >= state.stop_profit_count)
           => /\ state'.total_wins = 0
              /\ state'.consecutive_losses = 0
              /\ state'.current_bet = state.base_bet
              /\ ~state'.is_active /\ ~state'.waiting_for_result
              /\ ~state'.monitoring /\ state'.monitoring_history = << >>
              /\ state'.recent_outcomes = << >>
              /\ state'.total_profit = state.total_profit
                     + WinProfit(state.current_bet, state.auto_cashout)
              /\ state'.cooldown_remaining = config.custom_strategy.cooldown_after_win

\* C6: when a custom win makes total_wins reach stop_profit_count, the
\* strategy resets total_wins, drops monitoring and bet progression, keeps
\* total_profit, and enters a cooldown of cooldown_after_win rounds when that
\* is configured (no cooldown otherwise), in the live engine and the backtest.
C6_StopOnProfit == [][C6_StopStep]_vars

\* C7 as stated: after a stop that starts a cooldown of N rounds, the strategy
\* places no bet, is not activated and starts no monitoring while the next N
\* outcomes are processed (cd.age counts the outcomes since the stop).
C7_SuppressedForN ==
    program = "backtest" /\ cd.len > 0 /\ cd.age <= cd.len =>
        ~state.is_active /\ ~state.waiting_for_result /\ ~state.monitoring

\* C7: after a stop that starts a cooldown of N rounds, the strategy places no
\* bet, is not activated and starts no monitoring during the rest of the
\* stopping outcome and the next N - 1 outcomes; the N-th outcome after the
\* stop is the first on which it can be activated again.
C7_SuppressedBeforeNth ==
    program = "backtest" /\ cd.len > 0 /\ cd.age < cd.len =>
        ~state.is_active /\ ~state.waiting_for_result /\ ~state.monitoring

\* a bet is placed while the N-th outcome after the stop is processed
C7_Witness ==
    /\ program = "backtest" /\ cd.len = 2 /\ cd.age = 2
    /\ state.waiting_for_result
    /\ open_bet["Custom"] = bt_tracker.current_round

\* C8: cooldown_remaining goes down by exactly 1 per outcome processed while it
\* is positive, not on the outcome that started the cooldown, never below 0,
\* and is 0 after N outcomes; while it is positive the strategy is not active,
\* has no bet in flight and is not monitoring.
C8_Countdown ==
    /\ program = "backtest" =>
        /\ state.cooldown_remaining >= 0
        /\ cd.len > 0 =>
               state.cooldown_remaining =
                   IF cd.age < cd.len THEN cd.len - cd.age ELSE 0
        /\ state.cooldown_remaining > 0 =>
               /\ cd.len > 0
               /\ ~state.is_active /\ ~state.waiting_for_result /\ ~state.monitoring
    /\ program = "live" /\ custom # NoCustom =>
        /\ custom.cooldown_remaining >= 0
        /\ custom.cooldown_remaining > 0 =>
               ~custom.is_active /\ ~custom.waiting_for_result /\ ~custom.monitoring

\* one outcome into a cooldown of 2 rounds
C8_Witness ==
    /\ program = "backtest" /\ pc = "bt_result"
    /\ cd.len = 2 /\ cd.age = 1 /\ state.cooldown_remaining = 1

\* recent_outcomes after one more loss, written out: the loss goes to the end
\* and the oldest entries beyond window are dropped
C9_Window(recent, window) ==
    LET all == recent \o <<"loss">>
    IN IF Len(all) > window THEN SubSeq(all, Len(all) - window + 1, Len(all)) ELSE all

C9_Trips(recent, window, max_losses) ==
    /\ Len(C9_Window(recent, window)) = window
    /\ Cardinality({i \in 1..Len(C9_Window(recent, window)) :
                        C9_Window(recent, window)[i] = "loss"}) >= max_losses

\* the step that resolves a custom loss short of max_consecutive_losses
C9_LossStep ==
    /\ (/\ program = "live" /\ pc = "custom_result" /\ custom # NoCustom
        /\ custom.waiting_for_result /\ mult < custom.auto_cashout
        /\ custom.consecutive_losses + 1 < custom.max_consecutive_losses)
           => IF C9_Trips(custom.recent_outcomes, custom.loss_check_window,
                          custom.max_losses_in_window)
              THEN /\ ~custom'.is_active /\ ~custom'.waiting_for_result
                   /\ custom'.consecutive_losses = 0
                   /\ custom'.recent_outcomes = << >>
                   /\ last_driver'.place = "none"
              ELSE /\ last_driver'.who = "Custom" /\ last_driver'.place # "none"
                   /\ last_driver'.amount = custom.base_bet
                          * Pow(custom.bet_multiplier, custom.consecutive_losses + 1)
                   /\ custom'.waiting_for_result = (last_driver'.place = "ok")
                   /\ custom'.recent_outcomes =
                          C9_Window(custom.recent_outcomes, custom.loss_check_window)
    /\ (/\ program = "backtest" /\ pc = "bt_result"
        /\ state.waiting_for_result /\ mult < state.auto_cashout
        /\ state.consecutive_losses + 1 < state.max_consecutive_losses)
           => IF C9_Trips(state.recent_outcomes, state.loss_check_window,
                          state.max_losses_in_window)
              THEN /\ ~state'.is_active /\ ~state'.waiting_for_result
                   /\ state'.consecutive_losses = 0
                   /\ state'.recent_outcomes = << >>
                   /\ state'.cooldown_remaining = state.cooldown_after_loss
              ELSE /\ state'.is_active /\ state'.waiting_for_result
                   /\ state'.consecutive_losses = state.consecutive_losses + 1
                   /\ state'.current_bet = state.base_bet
                          * Pow(state.bet_multiplier, state.consecutive_losses + 1)
                   /\ state'.recent_outcomes =
                          C9_Window(state.recent_outcomes, state.loss_check_window)

\* recent_outcomes holds at most loss_check_window entries
C9_Bounded ==
    /\ program = "live" /\ custom # NoCustom =>
           Len(custom.recent_outcomes) <= custom.loss_check_window
    /\ program = "backtest" =>
           Len(state.recent_outcomes) <= state.loss_check_window

\* C9: on a custom loss short of max_consecutive_losses the strategy stops iff
\* recent_outcomes then holds loss_check_window entries with at least
\* max_losses_in_window losses among them, and places the martingale follow-up
\* otherwise; recent_outcomes never holds more than loss_check_window entries
\* and drops the oldest first.
C9_WindowLossStop == []C9_Bounded /\ [][C9_LossStep]_vars

\* the backtest has just stopped on a loss with fewer than
\* max_consecutive_losses losses in a row
C9_Witness ==
    /\ program = "backtest" /\ pc = "bt_monitor"
    /\ state.bets_placed # << >>
    /\ state.bets_placed[Len(state.bets_placed)][1] = bt_tracker.current_round
    /\ state.bets_placed[Len(state.bets_placed)][4] = "loss"
    /\ state.loss_streak < state.max_consecutive_losses
    /\ ~state.is_active /\ state.recent_outcomes = << >>

\* C10: while the custom strategy is monitoring it is not active, has no bet
\* in flight and is not in cooldown, in the live engine and in the backtest;
\* there is one pending monitor at most: outside monitoring no reason, history
\* or round count is kept.
C10_MonitoringIdle ==
    /\ program = "live" /\ custom # NoCustom =>
        /\ custom.monitoring =>
               /\ ~custom.is_active /\ ~custom.waiting_for_result
               /\ custom.cooldown_remaining = 0
        /\ ~custom.monitoring =>
               /\ custom.pending_signal_reason = None
               /\ custom.monitoring_history = << >>
               /\ custom.rounds_monitored = 0
    /\ program = "backtest" =>
        /\ state.monitoring =>
               /\ ~state.is_active /\ ~state.waiting_for_result
               /\ state.cooldown_remaining = 0
        /\ ~state.monitoring =>
               /\ state.pending_signal_reason = None
               /\ state.monitoring_history = << >>
               /\ state.rounds_monitored = 0

\* the live custom strategy has monitored a round after a signal
C10_Witness ==
    /\ program = "live" /\ custom # NoCustom
    /\ custom.monitoring /\ custom.rounds_monitored > 0

\* ------------------------------------------------------------------------
\* C11: a signal triggered while the custom strategy is idle and not
\* monitoring is handled in that step. If the last signal_confirm_window
\* outcomes of the tracker already hold signal_confirm_count outcomes at or
\* above signal_confirm_threshold, the activation is made at once (the cashout
\* is set up and, when the driver accepts the calls, the strategy is active
\* with its bet placed on this round) and monitoring stays off; otherwise
\* monitoring starts with rounds_monitored = 0, the signal's reason pending
\* and monitoring_history equal to that recent window.
\* ------------------------------------------------------------------------

\* the confirmation rule over a recent window
C11_Confirms(s, recent) ==
    /\ Len(recent) >= s.signal_confirm_window
    /\ Cardinality({i \in 1..Len(recent) :
                       /\ i > Len(recent) - s.signal_confirm_window
                       /\ Unit * recent[i] >= Unit * s.signal_confirm_threshold})
           >= s.signal_confirm_count

\* the signals the live engine routes to the custom strategy on this round
C11_LiveSignals ==
    WindowSignals(custom, get_last_n(tracker, 10), 10)
    \o WindowSignals(custom, get_last_n(tracker, 15), 15)
    \o ChainSignals(custom, tracker, get_last_n(tracker, 10))

\* the live engine is about to handle a triggered signal for an idle strategy
C11_LiveTriggered ==
    /\ program = "live" /\ pc = "signals"
    /\ custom # NoCustom
    /\ ~strategy_active /\ active_name = "" /\ autopilot
    /\ ~in_hotstreak(tracker)
    /\ ~custom.is_active /\ ~custom.waiting_for_result
    /\ C11_LiveSignals # << >>

C11_BtSignals ==
    WindowSignals(state, bt_get_last_n(bt_tracker, 10), 10)
    \o WindowSignals(state, bt_get_last_n(bt_tracker, 15), 15)
    \o ChainSignals(state, bt_tracker, bt_get_last_n(bt_tracker, 10))

C11_BtTriggered ==
    /\ program = "backtest" /\ pc = "bt_signals"
    /\ ~state.is_active /\ ~state.waiting_for_result /\ ~in_cooldown(state)
    /\ ~in_hotstreak(bt_tracker)
    /\ C11_BtSignals # << >>

C11_LiveStep ==
    (C11_LiveTriggered /\ ~custom.monitoring /\ pc' = "primary_result") =>
        LET recent == get_last_n(tracker, custom.signal_confirm_window) IN
        IF C11_Confirms(custom, recent)
        THEN /\ ~custom'.monitoring
             /\ last_driver'.who = "Custom" /\ last_driver'.setup # "none"
             /\ ~Failed(last_driver') =>
                   /\ custom'.is_active /\ custom'.waiting_for_result
                   /\ strategy_active'
                   /\ last_driver'.place = "ok"
                   /\ open_bet'["Custom"] = tracker.current_round
        ELSE /\ custom'.monitoring
             /\ custom'.rounds_monitored = 0
             /\ custom'.pending_signal_reason = C11_LiveSignals
             /\ custom'.monitoring_history = recent
             /\ ~custom'.is_active /\ ~custom'.waiting_for_result
             /\ last_driver' = NoCall

C11_BtStep ==
    (C11_BtTriggered /\ ~state.monitoring /\ pc' = "bt_round") =>
        LET recent == bt_get_last_n(bt_tracker, state.signal_confirm_window) IN
        IF C11_Confirms(state, recent)
        THEN /\ ~state'.monitoring
             /\ state'.is_active /\ state'.waiting_for_result
             /\ open_bet'["Custom"] = bt_tracker.current_round
        ELSE /\ state'.monitoring
             /\ state'.rounds_monitored = 0
             /\ state'.pending_signal_reason = C11_BtSignals
             /\ state'.monitoring_history = recent
             /\ ~state'.is_active /\ ~state'.waiting_for_result

C11_SignalWhileIdle == [][C11_LiveStep /\ C11_BtStep]_vars

\* a signal has just started a fresh monitor seeded with the recent window
C11_Witness ==
    /\ program = "live" /\ pc = "primary_result"
    /\ custom # NoCustom
    /\ custom.monitoring /\ custom.rounds_monitored = 0
    /\ Len(custom.monitoring_history) = custom.signal_confirm_window
    /\ custom.pending_signal_reason # None

\* ------------------------------------------------------------------------
\* C12: a monitoring episode that no new signal restarts ends no later than
\* the signal_monitor_rounds-th outcome after it started. Every outcome seen
\* while monitoring adds one to rounds_monitored and the outcome to
\* monitoring_history; on that outcome the confirmation rule is tried first
\* (a confirmed signal makes the activation, whatever rounds_monitored is),
\* and only then the expiry: at rounds_monitored >= signal_monitor_rounds
\* monitoring ends with no bet. rounds_monitored changes nowhere else, except
\* to 0 when a signal restarts the monitor, and never exceeds
\* signal_monitor_rounds while monitoring is true.
\* ------------------------------------------------------------------------

C12_Bounded ==
    /\ (program = "live" /\ custom # NoCustom /\ custom.monitoring) =>
           custom.rounds_monitored <= custom.signal_monitor_rounds
    /\ (program = "backtest" /\ state.monitoring) =>
           state.rounds_monitored <= state.signal_monitor_rounds

C12_LiveStep ==
    (/\ program = "live" /\ pc = "custom_monitor" /\ pc' = "custom_hotstreak"
     /\ custom # NoCustom /\ custom.monitoring /\ ~custom.is_active) =>
        LET history == Append(custom.monitoring_history, mult) IN
        IF C11_Confirms(custom, history) /\ ~strategy_active /\ autopilot
        THEN /\ ~custom'.monitoring
             /\ last_driver'.who = "Custom" /\ last_driver'.setup # "none"
             /\ ~Failed(last_driver') =>
                   /\ custom'.is_active /\ custom'.waiting_for_result
                   /\ open_bet'["Custom"] = tracker.current_round
        ELSE IF custom.rounds_monitored + 1 >= custom.signal_monitor_rounds
             THEN /\ ~custom'.monitoring
                  /\ ~custom'.is_active /\ ~custom'.waiting_for_result
                  /\ last_driver' = NoCall
             ELSE /\ custom'.monitoring
                  /\ custom'.rounds_monitored = custom.rounds_monitored + 1
                  /\ custom'.monitoring_history = history
                  /\ ~custom'.is_active /\ ~custom'.waiting_for_result
                  /\ last_driver' = NoCall

C12_BtStep ==
    (/\ program = "backtest" /\ pc = "bt_monitor" /\ pc' = "bt_hotstreak"
     /\ state.monitoring /\ ~state.is_active /\ ~in_cooldown(state)) =>
        LET history == Append(state.monitoring_history, mult) IN
        IF C11_Confirms(state, history)
        THEN /\ ~state'.monitoring
             /\ state'.is_active /\ state'.waiting_for_result
             /\ open_bet'["Custom"] = bt_tracker.current_round
        ELSE IF state.rounds_monitored + 1 >= state.signal_monitor_rounds
             THEN /\ ~state'.monitoring
                  /\ ~state'.is_active /\ ~state'.waiting_for_result
             ELSE /\ state'.monitoring
                  /\ state'.rounds_monitored = state.rounds_monitored + 1
                  /\ state'.monitoring_history = history
                  /\ ~state'.is_active /\ ~state'.waiting_for_result

\* outside the monitored outcome the count only moves by a restart to 0, and
\* every outcome seen while monitoring goes through the monitor step
C12_ElseStep ==
    /\ (/\ program = "live" /\ custom # NoCustom /\ custom.monitoring
        /\ custom'.monitoring /\ pc # "custom_monitor") =>
           \/ custom'.rounds_monitored = custom.rounds_monitored
           \/ pc = "signals" /\ custom'.rounds_monitored = 0
    /\ (/\ program = "backtest" /\ state.monitoring /\ state'.monitoring
        /\ pc # "bt_monitor") =>
           \/ state'.rounds_monitored = state.rounds_monitored
           \/ pc = "bt_signals" /\ state'.rounds_monitored = 0
    /\ (program = "live" /\ pc = "custom_monitor" /\ pc' # pc
        /\ custom # NoCustom /\ custom.monitoring) => ~custom.is_active
    /\ (program = "backtest" /\ pc = "bt_monitor" /\ pc' # pc /\ state.monitoring) =>
           ~state.is_active /\ ~in_cooldown(state)

C12_MonitorTimeout ==
    []C12_Bounded /\ [][C12_LiveStep /\ C12_BtStep /\ C12_ElseStep]_vars

\* the last outcome of a monitor is about to be processed and does not
\* confirm the signal: the monitor expires on it
C12_Witness ==
    /\ program = "backtest" /\ pc = "bt_monitor"
    /\ state.monitoring /\ ~state.is_active /\ ~in_cooldown(state)
    /\ state.rounds_monitored = state.signal_monitor_rounds - 1
    /\ ~C11_Confirms(state, Append(state.monitoring_history, mult))

\* ------------------------------------------------------------------------
\* C13: a signal triggered while the custom strategy is monitoring, and not
\* confirmed at once by the tracker's last signal_confirm_window outcomes,
\* restarts the monitor in that step: rounds_monitored is 0 again, the pending
\* reason is the new signal's reason and monitoring_history is the new recent
\* window; what the monitor had counted and collected is dropped, nothing is
\* queued and no bet is placed.
\* ------------------------------------------------------------------------

C13_LiveStep ==
    (C11_LiveTriggered /\ custom.monitoring /\ pc' = "primary_result") =>
        LET recent == get_last_n(tracker, custom.signal_confirm_window) IN
        ~C11_Confirms(custom, recent) =>
            /\ custom' = [custom EXCEPT !.rounds_monitored = 0,
                                        !.pending_signal_reason = C11_LiveSignals,
                                        !.monitoring_history = recent]
            /\ custom'.monitoring
            /\ last_driver' = NoCall
            /\ open_bet' = open_bet

C13_BtStep ==
    (C11_BtTriggered /\ state.monitoring /\ pc' = "bt_round") =>
        LET recent == bt_get_last_n(bt_tracker, state.signal_confirm_window) IN
        ~C11_Confirms(state, recent) =>
            /\ state' = [state EXCEPT !.rounds_monitored = 0,
                                      !.pending_signal_reason = C11_BtSignals,
                                      !.monitoring_history = recent]
            /\ state'.monitoring
            /\ open_bet' = open_bet

C13_Reentrancy == [][C13_LiveStep /\ C13_BtStep]_vars

\* a monitor that has counted a round is about to be restarted by a signal
C13_Witness ==
    /\ C11_LiveTriggered
    /\ custom.monitoring /\ custom.rounds_monitored >= 1
    /\ ~C11_Confirms(custom, get_last_n(tracker, custom.signal_confirm_window))
    /\ custom.monitoring_history # get_last_n(tracker, custom.signal_confirm_window)

\* ------------------------------------------------------------------------
\* C14: processing a force_stop command leaves the engine idle: every
\* primary and the custom strategy are idle (not active, no bet awaited, no
\* monitoring, no cooldown), engine.strategy_active is false and the run loop
\* holds no active primary, so that signal analysis and the activation of
\* primaries run again on the following outcomes.
\* ------------------------------------------------------------------------

C14_Idle(s) == ~s.is_active /\ ~s.waiting_for_result

C14_Step ==
    (/\ program = "live" /\ pc = "commands" /\ command_queue # << >>
     /\ Head(command_queue).action = "force_stop"
     /\ command_queue' = Tail(command_queue)) =>
        /\ \A i \in 1..Len(primaries') : C14_Idle(primaries'[i])
        /\ custom' # NoCustom =>
               /\ C14_Idle(custom')
               /\ ~custom'.monitoring
               /\ custom'.cooldown_remaining = 0
        /\ ~strategy_active'
        /\ active_name' = ""

C14_ForceStopIdle == [][C14_Step]_vars

\* ------------------------------------------------------------------------
\* C15: the replay is a pure fold. Whenever the replay stands between two
\* outcomes, its tracker, strategy state and accumulators are exactly what
\* one run over the sessions fed so far computes from the config alone, and
\* the metrics it reports at the end are the metrics of that run: the
\* result depends on nothing but the config and the outcome sequence, so two
\* runs over the same input report the same metrics.
\* ------------------------------------------------------------------------

C16_Backtest == RunAll(config.custom_strategy, <<tracker.recent>>).state

C16_SameBets ==
    (program = "live" /\ pc = "commands") =>
        /\ custom.waiting_for_result = C16_Backtest.waiting_for_result
        /\ custom.waiting_for_result =>
               custom.current_bet = C16_Backtest.current_bet
        /\ custom.total_profit = C16_Backtest.total_profit
        /\ total_profit = C16_Backtest.total_profit

\* ------------------------------------------------------------------------
\* C17: after any number n of add_multiplier calls the history holds
\* min(n, 50) outcomes, the most recent ones in the order they arrived (the
\* oldest is evicted first), and once more than 50 have been fed
\* get_last_n(50) is exactly the last 50 fed values in order.
\* ------------------------------------------------------------------------

C17_Fed == fed[1]

C17_RollingHistory ==
    program = "tracker" =>
        LET n == Len(C17_Fed)
            kept == IF n < 50 THEN n ELSE 50
        IN /\ Len(tracker.recent) = kept
           /\ \A i \in 1..kept : tracker.recent[i] = C17_Fed[n - kept + i]
           /\ tracker.current_round = n
           /\ n > 50 =>
                  /\ Len(get_last_n(tracker, 50)) = 50
                  /\ \A i \in 1..50 : get_last_n(tracker, 50)[i] = C17_Fed[n - 50 + i]

\* more than 50 outcomes were fed and the outcome evicted last differs from
\* the oldest one kept
C17_Witness ==
    /\ program = "tracker"
    /\ Len(C17_Fed) > 52
    /\ C17_Fed[Len(C17_Fed) - 50] # tracker.recent[1]
    /\ tracker.recent[50] # tracker.recent[49]

\* ------------------------------------------------------------------------
\* C18: after every add_multiplier the hotstreak is a function of the
\* history: current_hotstreak is present iff for some window size ws in
\* 10..15, with at least ws outcomes held, at least 65% of the last ws
\* outcomes are at or above 2.0x; when present its length is the largest such
\* ws, its type is strong iff at least 75% of that window is at or above 2.0x
\* and weak otherwise, and its average is the mean of that window.
\* ------------------------------------------------------------------------

\* outcomes at or above 2.0x among the last ws of the history
C18_Above(ws) ==
    Cardinality({i \in 1..Len(tracker.recent) :
                    /\ i > Len(tracker.recent) - ws
                    /\ Unit * tracker.recent[i] >= 200})

\* sum of the last ws outcomes of the history
C18_Sum(ws) ==
    LET n == Len(tracker.recent)
        f[k \in 0..ws] == IF k = 0 THEN 0 ELSE f[k - 1] + tracker.recent[n - ws + k]
    IN f[ws]

C18_Qualifies(ws) ==
    /\ Len(tracker.recent) >= ws
    /\ 100 * C18_Above(ws) >= 65 * ws

C18_Detection ==
    (program = "tracker" /\ Len(fed[1]) > 0) =>
        LET hs == tracker.current_hotstreak IN
        /\ (hs # NoHotstreak) <=> (\E ws \in 10..15 : C18_Qualifies(ws))
        /\ hs # NoHotstreak =>
              /\ hs.length \in 10..15
              /\ C18_Qualifies(hs.length)
              /\ \A ws \in 10..15 : C18_Qualifies(ws) => ws <= hs.length
              /\ hs.type = IF 100 * C18_Above(hs.length) >= 75 * hs.length
                           THEN "strong" ELSE "weak"
              /\ hs.average[1] * hs.length = C18_Sum(hs.length) * hs.average[2]

\* a 15-window that qualifies as weak is reported although the 10-window
\* qualifies as strong
C18_Witness ==
    /\ program = "tracker"
    /\ C18_Qualifies(10) /\ C18_Qualifies(15)
    /\ 100 * C18_Above(10) >= 75 * 10
    /\ 100 * C18_Above(15) < 75 * 15
    /\ tracker.current_hotstreak.length = 15
    /\ tracker.current_hotstreak.type = "weak"

\* ------------------------------------------------------------------------
\* C19: when an add_multiplier finds no qualifying window while a hotstreak
\* was active, last_hotstreak becomes that hotstreak as it stood after the
\* update before (type, length, average, start_round), hotstreak_end_round is
\* current_round - 1, current_hotstreak is None and cold_streak_occurred is
\* false after the update. No other update touches last_hotstreak or
\* hotstreak_end_round, also not while a newer hotstreak is active; a
\* hotstreak that stays active is updated in place: its start_round stays as
\* it was while its type, length and average follow the window.
\* ------------------------------------------------------------------------

C19_Step ==
    (program = "tracker" /\ fed' # fed) =>
        LET was == tracker.current_hotstreak
            none_qualifies == ~(\E ws \in 10..15 : C18_Qualifies(ws))'
        IN IF was # NoHotstreak /\ none_qualifies
           THEN /\ tracker'.last_hotstreak = was
                /\ tracker'.hotstreak_end_round = tracker'.current_round - 1
                /\ tracker'.current_hotstreak = NoHotstreak
                /\ ~tracker'.cold_streak_occurred
           ELSE /\ tracker'.last_hotstreak = tracker.last_hotstreak
                /\ tracker'.hotstreak_end_round = tracker.hotstreak_end_round
                /\ (was # NoHotstreak) =>
                       /\ tracker'.current_hotstreak # NoHotstreak
                       /\ tracker'.current_hotstreak.start_round = was.start_round

C19_EndSnapshot == [][C19_Step]_vars

\* a second hotstreak has been updated in place, to another length and type
\* than the ended one is remembered with
C19_Witness ==
    /\ program = "tracker"
    /\ tracker.last_hotstreak # NoHotstreak
    /\ tracker.current_hotstreak # NoHotstreak
    /\ tracker.current_hotstreak.start_round
           # tracker.current_round - tracker.current_hotstreak.length + 1
    /\ tracker.current_hotstreak.type # tracker.last_hotstreak.type

\* ------------------------------------------------------------------------
\* C20: once cold_streak_occurred is true it stays true across every later
\* update, whatever the outcome (rounds at or above 2.0x included, a
\* hotstreak starting or going on included), until an update on which a
\* hotstreak ends; only the end of a hotstreak sets it back to false.
\* ------------------------------------------------------------------------

C20_Step ==
    (program = "tracker" /\ fed' # fed /\ tracker.cold_streak_occurred) =>
        \/ tracker'.cold_streak_occurred
        \/ /\ tracker.current_hotstreak # NoHotstreak
           /\ tracker'.current_hotstreak = NoHotstreak
           /\ tracker'.last_hotstreak = tracker.current_hotstreak

C20_StickyCold == [][C20_Step]_vars

\* the flag has outlived rounds at or above 2.0x and the start of a hotstreak
C20_Witness ==
    /\ program = "tracker"
    /\ tracker.cold_streak_occurred
    /\ tracker.cold_count = 0
    /\ tracker.current_hotstreak # NoHotstreak
    /\ tracker.current_hotstreak.start_round < tracker.current_round
                                                 - tracker.current_hotstreak.length + 1

\* ------------------------------------------------------------------------
\* C21: with an ended hotstreak remembered, check_chain_patterns returns
\* exactly one of dead_ass_chain / possible_chain iff rounds_after_hotstreak
\* is 10, the last 10 outcomes have a mean above 2.0x and more than 4 values
\* at or above 2.0x, and cold_streak_occurred is false; it is dead_ass_chain
\* iff the ended hotstreak was strong with an average above 6.0x and
\* possible_chain otherwise; it returns rule_of_17 iff
\* rounds_after_hotstreak is 15 and cold_streak_occurred is false; at every
\* other offset it returns nothing.
\* ------------------------------------------------------------------------

\* what check_chain_patterns(tracker) returns, as the set of its entries
C21_Returned ==
    LET sig == check_chain_patterns(tracker, get_last_n(tracker, 10))
    IN [names |-> {sig[i] : i \in 1..Len(sig)}, count |-> Len(sig)]

\* the last ten outcomes fed, in hundredths
C21_LastTen ==
    LET n == Len(fed[1]) IN [i \in 1..10 |-> Unit * fed[1][n - 10 + i]]

C21_TenSum ==
    LET f[k \in 0..10] == IF k = 0 THEN 0 ELSE f[k - 1] + C21_LastTen[k]
    IN f[10]

C21_ChainDue ==
    /\ tracker.rounds_after_hotstreak = 10
    /\ C21_TenSum > 200 * 10
    /\ Cardinality({i \in 1..10 : C21_LastTen[i] >= 200}) > 4
    /\ ~tracker.cold_streak_occurred

C21_StrongHigh ==
    /\ tracker.last_hotstreak.type = "strong"
    /\ Unit * tracker.last_hotstreak.average[1] > 600 * tracker.last_hotstreak.average[2]

C21_ChainClassification ==
    (program = "tracker" /\ tracker.last_hotstreak # NoHotstreak) =>
        LET r == C21_Returned IN
        /\ Len(fed[1]) >= 10
        /\ r.names \subseteq {"dead_ass_chain", "possible_chain", "rule_of_17"}
        /\ r.count = Cardinality(r.names)
        /\ ~({"dead_ass_chain", "possible_chain"} \subseteq r.names)
        /\ (r.names \cap {"dead_ass_chain", "possible_chain"} # {}) <=> C21_ChainDue
        /\ "dead_ass_chain" \in r.names <=> (C21_ChainDue /\ C21_StrongHigh)
        /\ "rule_of_17" \in r.names <=>
               (tracker.rounds_after_hotstreak = 15 /\ ~tracker.cold_streak_occurred)
        /\ tracker.rounds_after_hotstreak \notin {10, 15} => r.count = 0

\* ten rounds after the end of a hotstreak: five outcomes at or above 2.0x,
\* no cold streak, and the mean of the ten decides whether a chain is returned
C21_Witness ==
    /\ program = "tracker"
    /\ tracker.last_hotstreak # NoHotstreak
    /\ tracker.rounds_after_hotstreak = 10
    /\ ~tracker.cold_streak_occurred
    /\ Cardinality({i \in 1..10 : C21_LastTen[i] >= 200}) = 5
    /\ C21_TenSum > 200 * 10
    /\ C21_Returned.names = {"possible_chain"}

\* ------------------------------------------------------------------------
\* C22: whenever an ended hotstreak is remembered, rounds_after_hotstreak is
\* current_round - hotstreak_end_round after every update: 1 on the update
\* that ended the hotstreak, then one more per outcome.  So a 10-round chain
\* signal is returned on at most one round per ended hotstreak, and so is
\* rule_of_17: no chain signal is returned on two different rounds for the
\* same ended hotstreak.
\* ------------------------------------------------------------------------

\* the kinds of chain signal check_chain_patterns returns for tracker t
C22_Kinds(t) ==
    LET sig == check_chain_patterns(t, get_last_n(t, 10))
        names == {sig[i] : i \in 1..Len(sig)}
    IN (IF names \cap {"dead_ass_chain", "possible_chain"} # {} THEN {"chain_10"} ELSE {})
       \cup (IF "rule_of_17" \in names THEN {"rule_of_17"} ELSE {})

\* the kinds returned after any of the updates that feed ms to t, as long as
\* the hotstreak that ended at end_round is the one remembered
RECURSIVE C22_KindsOnTheWay(_, _, _)
C22_KindsOnTheWay(t, ms, end_round) ==
    IF ms = << >> THEN {}
    ELSE LET t1 == add_multiplier(t, Head(ms))
             here == IF t1.last_hotstreak # NoHotstreak
                        /\ t1.hotstreak_end_round = end_round
                     THEN C22_Kinds(t1) ELSE {}
         IN IF t1.current_round > 0
            THEN here \cup C22_KindsOnTheWay(t1, Tail(ms), end_round)
            ELSE here

\* the kinds returned on earlier rounds for the hotstreak remembered now
C22_ReturnedBefore ==
    C22_KindsOnTheWay(NewTracker, SubSeq(fed[1], 1, Len(fed[1]) - 1),
                      tracker.hotstreak_end_round)

C22_Counted ==
    (program = "tracker" /\ tracker.last_hotstreak # NoHotstreak) =>
        /\ tracker.rounds_after_hotstreak
               = tracker.current_round - tracker.hotstreak_end_round
        /\ tracker.rounds_after_hotstreak >= 1
        /\ C22_Kinds(tracker) # {} => C22_Kinds(tracker) \cap C22_ReturnedBefore = {}

C22_Step ==
    (program = "tracker" /\ fed' # fed /\ tracker'.last_hotstreak # NoHotstreak) =>
        IF tracker.current_hotstreak # NoHotstreak
           /\ tracker'.current_hotstreak = NoHotstreak
        THEN tracker'.rounds_after_hotstreak = 1
        ELSE /\ tracker.last_hotstreak # NoHotstreak
             /\ tracker'.hotstreak_end_round = tracker.hotstreak_end_round
             /\ tracker'.rounds_after_hotstreak = tracker.rounds_after_hotstreak + 1

C22_EdgeTriggered == []C22_Counted /\ [][C22_Step]_vars

\* rule_of_17 is returned for a hotstreak for which a 10-round chain signal
\* was returned five rounds earlier
C22_Witness ==
    /\ program = "tracker"
    /\ tracker.last_hotstreak # NoHotstreak
    /\ tracker.rounds_after_hotstreak = 15
    /\ C22_Kinds(tracker) = {"rule_of_17"}
    /\ C22_ReturnedBefore = {"chain_10"}

\* ------------------------------------------------------------------------
\* C23: get_last_n(n) returns the last n outcomes in arrival order when the
\* history holds at least n; when the history is shorter than n it returns
\* all outcomes held, not an empty list; the live tracker and the backtest
\* tracker agree on this for every history and n.
\* ------------------------------------------------------------------------

\* the last n outcomes held, all of them when fewer than n are held
C23_Slice(n) ==
    LET held == Len(tracker.recent)
        k == IF held < n THEN held ELSE n
    IN [i \in 1..k |-> tracker.recent[held - k + i]]

C23_PartialSlice ==
    program = "tracker" =>
        \A n \in 1..HOTSTREAK_MAX_WINDOW :
            /\ get_last_n(tracker, n) = C23_Slice(n)
            /\ bt_get_last_n(tracker, n) = C23_Slice(n)
            /\ get_last_n(tracker, n) = bt_get_last_n(tracker, n)

\* ------------------------------------------------------------------------
\* C24: check_confirmation(recent) is true iff recent has at least
\* signal_confirm_window entries and at least signal_confirm_count of its
\* last signal_confirm_window entries are at or above
\* signal_confirm_threshold (equality counts); with fewer entries it is
\* false.  The monitor applies the same rule to its history with the new
\* outcome appended.
\* ------------------------------------------------------------------------

\* entries of recent among its last signal_confirm_window that reach the
\* threshold
C24_Reaching(s, recent) ==
    {i \in 1..Len(recent) :
        /\ Len(recent) - i < s.signal_confirm_window
        /\ recent[i] >= s.signal_confirm_threshold}

C24_Rule(s, recent) ==
    /\ Len(recent) >= s.signal_confirm_window
    /\ Cardinality(C24_Reaching(s, recent)) >= s.signal_confirm_count

C24_Checked ==
    (program = "confirm" /\ pc = "checked") =>
        /\ result.confirmed <=> C24_Rule(custom, script)
        /\ Len(script) < custom.signal_confirm_window => ~result.confirmed

C24_MonitorStep ==
    (program = "confirm" /\ pc' = "monitored") =>
        /\ custom'.is_active <=> C24_Rule(custom, script)
        /\ custom'.monitoring <=> ~C24_Rule(custom, script)

C24_ConfirmationRule == []C24_Checked /\ [][C24_MonitorStep]_vars

\* threshold 2.0, count 3, window 5 on [2.5, 1.0, 3.0, 1.0, 2.0]: confirmed
\* by exactly three entries, one of them equal to the threshold
C24_Witness ==
    /\ program = "confirm" /\ pc = "checked"
    /\ custom.signal_confirm_threshold = 4
    /\ custom.signal_confirm_count = 3
    /\ custom.signal_confirm_window = 5
    /\ script = <<5, 2, 6, 2, 4>>
    /\ result.confirmed

\* ------------------------------------------------------------------------
\* C25: analyze_window(window, size) emits pre_streak iff size = 10 and the
\* window has a mean above 3.75x, at least 4 values at or above 2.0x, a
\* population standard deviation above 12 and a maximum above 7.16x (never
\* for size 15); it emits high_stddev iff the population standard deviation
\* is above 25, for either size; it emits nothing else.
\* ------------------------------------------------------------------------

\* the window that was analyzed
C25_Window ==
    LET size == IF pc = "analyzed_10" THEN 10 ELSE 15
    IN [i \in 1..size |-> script[15 - size + i]]

C25_Total(w) ==
    LET f[k \in 0..Len(w)] == IF k = 0 THEN 0 ELSE f[k - 1] + w[k]
    IN f[Len(w)]

\* the population standard deviation of w is above th (th times 100 \div Unit
\* in the unit of the outcomes): the squared deviations from the mean add up
\* to more than n times its square
C25_DeviationAbove(w, th) ==
    LET n == Len(w)
        total == C25_Total(w)
        sq == [i \in 1..n |-> (n * w[i] - total) * (n * w[i] - total)]
        limit == th * (100 \div Unit)
    IN C25_Total(sq) > n * n * n * limit * limit

C25_PreStreak(w) ==
    /\ Len(w) = 10
    /\ Unit * C25_Total(w) > 375 * Len(w)
    /\ Cardinality({i \in 1..Len(w) : Unit * w[i] >= 200}) >= 4
    /\ C25_DeviationAbove(w, 12)
    /\ \E i \in 1..Len(w) : Unit * w[i] > 716

C25_WindowSignals ==
    (program = "window" /\ pc \in {"analyzed_10", "analyzed_15"}) =>
        LET sig == result.signals
            names == {sig[i] : i \in 1..Len(sig)}
        IN /\ names \subseteq {"pre_streak", "high_stddev"}
           /\ Len(sig) = Cardinality(names)
           /\ "pre_streak" \in names <=> C25_PreStreak(C25_Window)
           /\ "high_stddev" \in names <=> C25_DeviationAbove(C25_Window, 25)
           /\ pc = "analyzed_15" => "pre_streak" \notin names

\* a 10-window with a 50x round and four rounds at or above 2.0x: the
\* deviation is above 12 and not above 25, and pre_streak alone is emitted
C25_Witness ==
    /\ program = "window" /\ pc = "analyzed_10"
    /\ result.signals = <<"pre_streak">>
    /\ Cardinality({i \in 1..10 : Unit * C25_Window[i] >= 200}) = 4
    /\ ~C25_DeviationAbove(C25_Window, 25)

\* ------------------------------------------------------------------------
\* C26: a resolved bet is a win iff the outcome is at or above auto_cashout
\* (equality is a win) and a loss otherwise; a win adds exactly
\* current_bet * (auto_cashout - 1) to the strategy's total_profit and counts
\* in total_wins (which the stop on profit of the same step sets back to 0),
\* a loss subtracts exactly current_bet, where current_bet is the amount that
\* was placed; nothing else changes total_profit.
\* ------------------------------------------------------------------------

\* s1 is s after the bet of s was resolved by outcome m
C26_Resolved(s, s1, m) ==
    LET bet == s.current_bet
        gain == s1.total_profit - s.total_profit
    IN IF Unit * m >= Unit * s.auto_cashout
       THEN 100 * gain = bet * (Unit * s.auto_cashout - 100)
       ELSE gain = 0 - bet

\* total_wins of s1 after a win of s
C26_Counted(s, s1, m) ==
    Unit * m >= Unit * s.auto_cashout =>
        s1.total_wins = IF s.stop_profit_count > 0
                           /\ s.total_wins + 1 >= s.stop_profit_count
                        THEN 0 ELSE s.total_wins + 1

\* the amount of a bet in flight is the amount asked of the driver when the
\* bet was placed, and stays as it is until the bet is resolved
C26_Placed(name, s, s1, resolving) ==
    /\ (last_driver'.who = name /\ last_driver'.place = "ok") =>
           s1.waiting_for_result /\ s1.current_bet = last_driver'.amount
    /\ (s1.waiting_for_result /\ ~(last_driver'.who = name /\ last_driver'.place = "ok")) =>
           /\ s.waiting_for_result /\ ~resolving
           /\ s1.current_bet = s.current_bet

C26_LiveStep ==
    program = "live" =>
        /\ custom # NoCustom =>
              LET resolving == pc = "custom_result" /\ pc' # pc
                                   /\ custom.waiting_for_result
              IN /\ IF resolving
                    THEN /\ C26_Resolved(custom, custom', mult)
                         /\ C26_Counted(custom, custom', mult)
                         /\ total_profit' - total_profit
                                = custom'.total_profit - custom.total_profit
                    ELSE custom'.total_profit = custom.total_profit
                 /\ C26_Placed("Custom", custom, custom', resolving)
        /\ \A i \in 1..Len(primaries) :
              LET resolving == /\ pc = "primary_result" /\ pc' # pc
                               /\ active_name = primaries[i].name
                               /\ primaries[i].waiting_for_result
              IN /\ IF resolving
                    THEN /\ C26_Resolved(primaries[i], primaries'[i], mult)
                         /\ total_profit' - total_profit
                                = primaries'[i].total_profit - primaries[i].total_profit
                    ELSE primaries'[i].total_profit = primaries[i].total_profit
                 /\ C26_Placed(primaries[i].name, primaries[i], primaries'[i], resolving)

C26_BtStep ==
    (program = "backtest" /\ program' = "backtest" /\ sessions_left' = sessions_left) =>
        LET resolving == pc = "bt_result" /\ pc' # pc /\ state.waiting_for_result
        IN /\ IF resolving
              THEN /\ C26_Resolved(state, state', mult)
                   /\ C26_Counted(state, state', mult)
                   /\ state'.total_bets = state.total_bets + 1
              ELSE /\ state'.total_profit = state.total_profit
                   /\ state'.total_bets = state.total_bets
           /\ (state.waiting_for_result /\ state'.waiting_for_result /\ ~resolving) =>
                  state'.current_bet = state.current_bet

C27_BetFields == {"current_bet", "consecutive_losses", "waiting_for_result", "is_active"}

C27_ClearedFields ==
    {"total_wins", "recent_outcomes", "monitoring", "rounds_monitored",
     "monitoring_history", "pending_signal_reason", "cooldown_remaining",
     "cooldown_type"}

\* r is s with its bet progression back at the start
C27_BetCleared(s, r) ==
    /\ r.current_bet = s.base_bet
    /\ r.consecutive_losses = 0
    /\ ~r.waiting_for_result
    /\ ~r.is_active

C27_IsReset(s, r) ==
    /\ DOMAIN r = DOMAIN s
    /\ C27_BetCleared(s, r)
    /\ \A f \in DOMAIN s \ C27_BetFields : r[f] = s[f]

C27_IsFullReset(s, r) ==
    /\ DOMAIN r = DOMAIN s
    /\ C27_BetCleared(s, r)
    /\ r.total_wins = 0
    /\ r.recent_outcomes = << >>
    /\ ~r.monitoring /\ r.rounds_monitored = 0 /\ r.monitoring_history = << >>
    /\ r.pending_signal_reason = None
    /\ r.cooldown_remaining = 0 /\ r.cooldown_type = ""
    /\ r.total_profit = s.total_profit
    /\ \A f \in DOMAIN s \ (C27_BetFields \cup C27_ClearedFields) : r[f] = s[f]

\* reset() and full_reset() on the strategy states of the program as they are
C27_OnStates ==
    /\ program = "live" =>
          /\ custom # NoCustom =>
                /\ C27_IsReset(custom, reset(custom))
                /\ C27_IsFullReset(custom, full_reset(custom))
          /\ \A i \in 1..Len(primaries) : C27_IsReset(primaries[i], reset(primaries[i]))
    /\ program = "backtest" =>
          /\ C27_IsReset(state, reset(state))
          /\ C27_IsFullReset(state, full_reset(state))

\* _force_stop_all: reset() on every primary, full_reset() on the custom
\* strategy
C27_ForceStopStep ==
    (/\ program = "live" /\ pc = "commands" /\ command_queue # << >>
     /\ Head(command_queue).action = "force_stop"
     /\ command_queue' # command_queue) =>
        /\ custom # NoCustom => C27_IsFullReset(custom, custom')
        /\ \A i \in 1..Len(primaries) : C27_IsReset(primaries[i], primaries'[i])

C27_ResetFrames == []C27_OnStates /\ [][C27_ForceStopStep]_vars

\* the backtest strategy after a full reset that followed wins and a loss:
\* the profit made is kept, the wins and the outcome window are gone
C27_Witness ==
    /\ program = "backtest" /\ pc = "bt_monitor"
    /\ state.total_bets >= 3
    /\ state.max_win_streak >= 1
    /\ state.total_profit # 0
    /\ state.total_wins = 0
    /\ state.recent_outcomes = << >>
    /\ state.cooldown_remaining = 0
    /\ state = full_reset(state)

\* C28: a configuration in which a strategy, primary or custom, has
\* auto_cashout <= 1.0 or base_bet <= 0, or in which no strategy is configured,
\* never reaches a running engine, at start-up or by hot reload: the
\* configuration of a running engine is sound, and so is every strategy the
\* engine holds
C28_SoundStrategy(sc) == Hundredths(sc.auto_cashout) > 100 /\ sc.base_bet > 0

C28_SoundConfig(cfg) ==
    /\ \A i \in 1..Len(cfg.strategies) : C28_SoundStrategy(cfg.strategies[i])
    /\ cfg.custom_strategy.enabled => C28_SoundStrategy(cfg.custom_strategy)
    /\ cfg.strategies # << >> \/ cfg.custom_strategy.enabled

C28_InvalidNeverRuns ==
    (program = "live" /\ running) =>
        /\ C28_SoundConfig(config)
        /\ \A i \in 1..Len(primaries) : C28_SoundStrategy(primaries[i])
        /\ custom # NoCustom => C28_SoundStrategy(custom)

\* C29: the total_wins reported by BacktestEngine.run is the number of
\* resolved bets of the whole run that won, total_bets the number of resolved
\* bets, and win_rate their quotient (0 without bets), whatever resets
\* happened on the way
C29_Wins(bets) == Cardinality({i \in 1..Len(bets) : bets[i][4] = "win"})

C29_ReportedWins ==
    (program = "backtest" /\ pc = "bt_done") =>
        /\ result.total_bets = Len(state.bets_placed)
        /\ result.total_wins = C29_Wins(state.bets_placed)
        /\ result.win_rate = IF Len(state.bets_placed) > 0
                             THEN <<C29_Wins(state.bets_placed), Len(state.bets_placed)>>
                             ELSE <<0, 1>>

\* C30: simulate counts a bust only for a fired sequence in which max_mr
\* bets were placed and all lost; every fired trigger ends in exactly one of
\* a win or a bust; a bust subtracts exactly the sum of the lost bets; the
\* streak counter is 0 after every sequence and never exceeds trigger_count
RECURSIVE C30_GeoSum(_, _, _)
C30_GeoSum(base, ratio, n) ==
    IF n = 0 THEN 0 ELSE base + C30_GeoSum(base * ratio, ratio, n - 1)

C30_Streak == program = "simulate" => result.streak <= config.trigger_count

C30_BustStep ==
    (program = "simulate" /\ result'.busts # result.busts) =>
        /\ result'.busts = result.busts + 1
        /\ pc = "sim_bet" /\ ~result.won
        /\ result.placed = config.max_mr
        /\ result'.total_profit =
               result.total_profit
               - C30_GeoSum(config.base_bet, config.bet_mult, config.max_mr)

C30_SequenceEnd ==
    (program = "simulate" /\ pc = "sim_bet" /\ pc' = "sim_round") =>
        /\ result'.streak = 0
        /\ result'.won # (result'.busts = result.busts + 1)

C30_Returned ==
    (program = "simulate" /\ pc \in {"sim_round", "sim_done"}) =>
        result.busts <= result.total_fired

C30_BustAccounting ==
    /\ [](C30_Streak /\ C30_Returned)
    /\ [][C30_BustStep /\ C30_SequenceEnd]_vars

\* C31: commands put by the GUI thread at any moment are applied only by the
\* engine thread in _process_commands at the start of a loop iteration, in
\* the order they were put, never while an outcome is being processed: a put
\* changes nothing but the queue, the queue is taken from at the head and
\* only where the loop starts, and the loop goes on to the outcome only once
\* the queue is empty
C31_Engine ==
    <<pc, mult, config, tracker, custom, primaries, strategy_active, autopilot,
      running, total_profit, active_name, last_seen>>

C31_Put ==
    /\ Len(command_queue') > Len(command_queue)
    /\ SubSeq(command_queue', 1, Len(command_queue)) = command_queue
    /\ UNCHANGED C31_Engine

C31_Applied ==
    /\ pc = "commands" /\ pc' = "commands"
    /\ command_queue # << >>
    /\ command_queue' = Tail(command_queue)
    /\ UNCHANGED <<tracker, mult, last_seen, total_profit, running>>
    /\ LET cmd == Head(command_queue) IN
       /\ cmd.action = "set_autopilot" =>
              /\ autopilot' = cmd.value
              /\ UNCHANGED <<config, custom, primaries, strategy_active>>
       /\ cmd.action = "force_stop" =>
              /\ ~strategy_active'
              /\ custom'.is_active = FALSE /\ custom'.waiting_for_result = FALSE
              /\ \A i \in 1..Len(primaries') : ~primaries'[i].is_active
              /\ UNCHANGED <<config, autopilot>>
       /\ cmd.action \in {"activate_primary", "activate_custom"} =>
              UNCHANGED <<config, autopilot>>
       /\ cmd.action = "reload_config" =>
              /\ config' = cmd.value
              /\ UNCHANGED <<autopilot, strategy_active>>

C31_EngineStep ==
    /\ command_queue' = command_queue
    /\ (pc = "commands" /\ pc' # "commands") => command_queue = << >>

C31_Step == C31_Put \/ C31_Applied \/ C31_EngineStep

C31_Serialized == [][C31_Step]_vars

\* the first button, autopilot off, has been applied; the second, a force
\* stop, was pressed while the engine was processing an outcome and waits
C31_Witness ==
    /\ program = "live" /\ pc = "custom_monitor"
    /\ ~autopilot
    /\ commands_left = 0
    /\ command_queue = <<Cmd("force_stop", 0)>>

\* C32: in the live engine no bet is placed for a primary strategy whose
\* consecutive_losses has reached max_consecutive_losses; after the
\* max_consecutive_losses-th loss in a row no follow-up bet is placed
C32_NoBetAtLimit ==
    program = "live" =>
        \A i \in 1..Len(primaries) :
            (last_driver.who = primaries[i].name /\ last_driver.place = "ok") =>
                primaries[i].consecutive_losses < primaries[i].max_consecutive_losses

\* C33: in the live engine at most one strategy, among the primaries and the
\* custom strategy, is active or has a bet in flight, whatever GUI commands
\* come between the outcomes
C33_Busy ==
    {i \in 1..Len(primaries) :
        primaries[i].is_active \/ primaries[i].waiting_for_result}

C33_CustomBusy ==
    IF custom # NoCustom /\ (custom.is_active \/ custom.waiting_for_result)
    THEN 1 ELSE 0

C33_OneBetInFlight ==
    program = "live" => Cardinality(C33_Busy) + C33_CustomBusy <= 1

\* C34: between the processing of two outcomes, engine.strategy_active is
\* true exactly when some primary strategy or the custom strategy has
\* is_active set, whatever outcomes, driver failures and GUI commands came
\* before, a configuration reload with a bet in flight included
C34_SomeActive ==
    \/ \E i \in 1..Len(primaries) : primaries[i].is_active
    \/ custom # NoCustom /\ custom.is_active

C34_FlagConsistent ==
    (program = "live" /\ pc \in {"commands", "detect"}) =>
        (strategy_active <=> C34_SomeActive)

\* C35: when the custom strategy stops on an outcome (max consecutive
\* losses, window-loss limit or stop-on-profit), no new custom bet is placed
\* while that outcome is processed, also with a hotstreak the strategy
\* activates on still running. Backtest: a strategy whose record of recent
\* outcomes was cleared by the stop of this outcome has no bet in flight when
\* the outcome is done. Live engine: after the step of _custom_result that
\* stops the strategy, _check_custom_hotstreak places nothing
C35_BacktestStopped ==
    (/\ program = "backtest" /\ pc \in {"bt_signals", "bt_round"}
     /\ state.bets_placed # << >>
     /\ state.bets_placed[Len(state.bets_placed)][1] = bt_tracker.current_round
     /\ state.recent_outcomes = << >>)
        => ~state.waiting_for_result

C35_LiveStop ==
    (/\ program = "live" /\ pc = "custom_result"
     /\ custom # NoCustom /\ custom.waiting_for_result
     /\ ~custom'.is_active /\ custom'.recent_outcomes = << >>)
        => LET r == check_custom_hotstreak(custom', strategy_active', tracker',
                                           autopilot', TRUE, TRUE)
           IN ~r.custom.waiting_for_result /\ r.driver.place = "none"

C35_StopNotUndone == []C35_BacktestStopped /\ [][C35_LiveStop]_vars

\* C36: whenever the custom strategy has a bet in flight, recent_outcomes
\* does not hold loss_check_window entries of which max_losses_in_window or
\* more are losses, also when the entry that filled the window was a win
C36_WindowTripped(s) ==
    /\ Len(s.recent_outcomes) = s.loss_check_window
    /\ Cardinality({i \in 1..Len(s.recent_outcomes) : s.recent_outcomes[i] = "loss"})
           >= s.max_losses_in_window

C36_WindowLimit ==
    /\ (program = "live" /\ custom # NoCustom /\ custom.waiting_for_result)
           => ~C36_WindowTripped(custom)
    /\ (program = "backtest" /\ state.waiting_for_result)
           => ~C36_WindowTripped(state)

\* C37: whenever monitoring is true, monitoring_history is the most recent
\* len(monitoring_history) outcomes fed to the tracker, so the monitor's
\* confirmation check on an outcome agrees with check_confirmation on the
\* tracker's last signal_confirm_window outcomes, and a signal raised again
\* on a monitored outcome that did not confirm is not confirmed on that
\* outcome
C37_Tracks(s, t) ==
    s.monitoring =>
        /\ Len(s.monitoring_history) <= Len(t.recent)
        /\ s.monitoring_history = LastN(t.recent, Len(s.monitoring_history))

C37_Between ==
    /\ (program = "live" /\ pc \in {"commands", "detect"} /\ custom # NoCustom)
           => C37_Tracks(custom, tracker)
    /\ (program = "backtest" /\ pc = "bt_round") => C37_Tracks(state, bt_tracker)

\* the monitor's test on the history with the outcome appended
C37_MonitorConfirms(s, m) ==
    LET h == Append(s.monitoring_history, m) IN
    /\ Len(h) >= s.signal_confirm_window
    /\ CountAtLeast(LastN(h, s.signal_confirm_window),
                    Hundredths(s.signal_confirm_threshold)) >= s.signal_confirm_count

\* check_confirmation on the last signal_confirm_window outcomes of the tracker
C37_TrackerConfirms(s, t) ==
    /\ Len(t.recent) >= s.signal_confirm_window
    /\ check_confirmation(s, LastN(t.recent, s.signal_confirm_window))

C37_Agrees ==
    /\ (/\ program = "live" /\ pc = "custom_monitor" /\ custom # NoCustom
        /\ custom.monitoring /\ ~custom.is_active)
           => (C37_MonitorConfirms(custom, mult) <=> C37_TrackerConfirms(custom, tracker))
    /\ (/\ program = "backtest" /\ pc = "bt_monitor"
        /\ state.monitoring /\ ~state.is_active /\ ~in_cooldown(state))
           => (C37_MonitorConfirms(state, mult) <=> C37_TrackerConfirms(state, bt_tracker))

\* a monitor still running when the signals of the outcome are analysed did
\* not confirm on it: the analysis places no bet
C37_NoReconfirm ==
    /\ (program = "live" /\ pc = "signals" /\ custom # NoCustom /\ custom.monitoring)
           => ~custom'.waiting_for_result /\ last_driver'.place = "none"
    /\ (program = "backtest" /\ pc = "bt_signals" /\ state.monitoring)
           => ~state'.waiting_for_result

C37_HistoryTracks == [](C37_Between /\ C37_Agrees) /\ [][C37_NoReconfirm]_vars

\* C38: a hotstreak ends only on a low outcome. Whenever add_multiplier takes
\* current_hotstreak from a hotstreak to None, the outcome just added is under
\* 2.00x, and after the update the count of consecutive low outcomes is 1 and
\* rounds_after_hotstreak is 1.
C38_Ended(before, after, m) ==
    (in_hotstreak(before) /\ ~in_hotstreak(after)) =>
        /\ Hundredths(m) < 200
        /\ after.cold_count = 1
        /\ after.rounds_after_hotstreak = 1

C38_AddStep ==
    /\ (tracker'.current_round = tracker.current_round + 1)
           => C38_Ended(tracker, tracker', mult')
    /\ (bt_tracker'.current_round = bt_tracker.current_round + 1)
           => C38_Ended(bt_tracker, bt_tracker', mult')

C38_EndsOnLow == [][C38_AddStep]_vars

\* a hotstreak has just ended on the second of two low outcomes in a row,
\* with the history full
C38_Witness ==
    /\ program = "tracker"
    /\ ~in_hotstreak(tracker)
    /\ tracker.last_hotstreak # NoHotstreak
    /\ tracker.hotstreak_end_round = tracker.current_round - 1
    /\ Len(tracker.recent) = HISTORY_SIZE
    /\ Hundredths(tracker.recent[HISTORY_SIZE]) < 200
    /\ Hundredths(tracker.recent[HISTORY_SIZE - 1]) < 200


\* C39: the cold flag characterised. After every update cold_streak_occurred
\* is true exactly when some run of at least 5 consecutive outcomes under
\* 2.00x lies entirely among the outcomes with round index above
\* hotstreak_end_round (all outcomes while no hotstreak has ended), runs
\* during a later hotstreak included.
C39_ColdRun(ms, end_round) ==
    \E i \in (end_round + 1)..(Len(ms) - COLD_STREAK_LENGTH + 1) :
        \A j \in i..(i + COLD_STREAK_LENGTH - 1) : Hundredths(ms[j]) < 200

C39_ColdFlag ==
    (program = "tracker" /\ Len(fed[1]) > 0) =>
        /\ tracker.current_round = Len(fed[1])
        /\ tracker.cold_streak_occurred
               <=> C39_ColdRun(fed[1], tracker.hotstreak_end_round)

\* the flag set by a run of five low outcomes after a hotstreak ended
C39_Witness ==
    /\ program = "tracker"
    /\ tracker.cold_streak_occurred
    /\ tracker.hotstreak_end_round > 0
    /\ tracker.cold_count = COLD_STREAK_LENGTH


\* C40: betting episodes terminate. With stop_profit_count = k > 0 and
\* max_consecutive_losses = L >= 1 the custom strategy resolves at most k * L
\* bets between an activation from Idle and the next stop, and is never
\* Active over more than k * L outcomes in a row. Stated with the number
\* of bets that can still be resolved, (k - total_wins) * L - consecutive_losses:
\* it is between 1 and k * L while a bet is in flight, every resolved bet
\* that leaves the strategy betting takes at least 1 from it, no other step
\* changes it while the strategy stays Active, and an Active strategy has a
\* bet in flight when an outcome arrives.
C40_Bounded(s) == s.stop_profit_count > 0 /\ s.max_consecutive_losses >= 1

C40_Left(s) ==
    (s.stop_profit_count - s.total_wins) * s.max_consecutive_losses - s.consecutive_losses

C40_InFlight(s) ==
    (C40_Bounded(s) /\ s.waiting_for_result) =>
        /\ s.is_active
        /\ C40_Left(s) >= 1
        /\ C40_Left(s) <= s.stop_profit_count * s.max_consecutive_losses

C40_State ==
    /\ (program = "live" /\ custom # NoCustom) =>
           /\ C40_InFlight(custom)
           /\ (C40_Bounded(custom) /\ pc \in {"commands", "detect"} /\ custom.is_active)
                  => custom.waiting_for_result
    /\ program = "backtest" =>
           /\ C40_InFlight(state)
           /\ (C40_Bounded(state) /\ pc = "bt_round" /\ state.is_active)
                  => state.waiting_for_result

C40_Resolve(before, after, resolving) ==
    (C40_Bounded(before) /\ before.is_active /\ after.is_active) =>
        IF resolving /\ before.waiting_for_result
        THEN C40_Left(after) <= C40_Left(before) - 1
        ELSE C40_Left(after) = C40_Left(before)

C40_Step ==
    /\ (program = "live" /\ custom # NoCustom /\ custom' # NoCustom)
           => C40_Resolve(custom, custom', pc = "custom_result" /\ pc' # pc)
    /\ program = "backtest" => C40_Resolve(state, state', pc = "bt_result" /\ pc' # pc)

C40_EpisodesEnd == []C40_State /\ [][C40_Step]_vars

\* the bound reached: a loss, a win and a loss resolved since the
\* activation, the bet number k * L in flight
C40_Witness ==
    /\ program = "live"
    /\ C40_Bounded(custom)
    /\ custom.waiting_for_result
    /\ custom.total_wins = custom.stop_profit_count - 1
    /\ custom.consecutive_losses = custom.max_consecutive_losses - 1
    /\ custom.recent_outcomes = <<"loss", "win", "loss">>


====
